---- MODULE Spec2Model ----
(***************************************************************************)
(* The control service / convergence agent protocol of                     *)
(* flocker/control/_protocol.py.                                           *)
(*                                                                         *)
(* The control service (ControlAMPService) keeps a set of agent            *)
(* connections, reads the desired configuration from the configuration     *)
(* persistence service and the observed state from the cluster state       *)
(* service, and sends both to the agents with ClusterStatusCommand.  The   *)
(* agents report with NodeStateCommand.  Every handler runs to completion  *)
(* on the reactor thread, so each handler is one action.                   *)
(***************************************************************************)
EXTENDS Integers, Sequences, FiniteSets, TLC

\* ------------------------------------------------------------------ bounds

\* The inputs of one run: connections opened, save() calls and NodeStateCommands
\* sent, all together.
MaxOps == 3

\* The calls made to the block device drivers in one run.
MaxCalls == 2
\* The timestamps snapshots are named with.
MaxStamp == 2
\* The times the acceptance test moves the dataset in one run.
MaxMoves == 2

\* ------------------------------------------------------------- the values

\* The agents, numbered in the order in which they first connect.
Agents == 1..(MaxOps + 1)
Nodes == {"n1", "n2"}
\* Each connection is one ControlAMP on the control service and one AgentAMP on
\* the agent; they are numbered in the order the agents open them.
ConnIds == 1..(MaxOps + 1)

\* The Deployment objects the operator may save; "d0" is the one loaded at start.
Deployments == {"d0", "d1"}
\* What a node (or the non-manifest set) can be observed to hold.
Vals == {"v1", "v2"}
\* Nothing reported yet.
NoVal == "none"

\* The IClusterStateChange providers a NodeStateCommand may carry.
NodeState(n, v) == [type |-> "NodeState", node |-> n, val |-> v]
NonManifestDatasets(v) == [type |-> "NonManifestDatasets", node |-> "-", val |-> v]

\* The state_changes lists the agents send.
ChangeLists ==
    { <<NodeState("n1", "v1")>>,
      <<NodeState("n1", "v2"), NonManifestDatasets("v1")>>,
      <<NodeState("n2", "v2"), NodeState("n2", "v1")>> }

\* DeploymentState(): no node has reported.
EmptyDeploymentState == [nodes |-> [n \in Nodes |-> NoVal], nonmanifest |-> NoVal]

\* ------------------------------------------------------------------ state

VARIABLES
    listening,      \* ControlAMPService.endpoint_service is running
    connections,    \* ControlAMPService.connections
    configuration,  \* the Deployment the configuration service holds
    cluster_state,  \* the DeploymentState the cluster state service holds
    srv,            \* the control service's end of connection c
    agt,            \* the agent's end of connection c
    owner,          \* the agent that opened connection c
    toAgent,        \* ClusterStatusCommands in flight on connection c
    toServer,       \* NodeStateCommands in flight on connection c
    nrecv,          \* history: cluster_updated calls on connection c so far
    cfgAtConnect,   \* history: the configuration when connected(c) ran
    cfgAtLoss,      \* history: the configuration when the agent lost c
    agentN,         \* history: NodeStateCommands agent a has sent so far
    lastOn,         \* history: the last command of connection c that was handled
    maxOn,          \* history: the latest-sent command of c handled so far
    lastBy,         \* history: the last command of agent a that was handled
    maxBy,          \* history: the latest-sent command of a handled so far
    lastArrived,    \* history: per node, the last NodeState to arrive
    ops,            \* number of inputs so far
    budget,         \* number of inputs of this run
    event,          \* the handler that ran last
    context,        \* the Eliot context the handler that ran last ran in
    sends,          \* the callRemote calls of the handler that ran last
    wire,           \* one command followed through SerializableArgument
    volumes,        \* the volumes of the OpenStack backend, by volume id
    pc,             \* where each CinderBlockDeviceAPI is in the call it is running
    result,         \* what the driver call that ended in the last step gave
    calls,          \* number of driver calls and foreign volumes so far
    snapshots,      \* the snapshots of the ZFS pool, as zfs names them
    process,        \* the zfs process that is running, and its _AccumulatingProtocol
    fired,          \* what the Deferred of the last zfs call fired with
    local           \* per node: the dataset it holds and what its agent knows

vars == <<listening, connections, configuration, cluster_state, srv, agt, owner, toAgent,
          toServer, nrecv, cfgAtConnect, cfgAtLoss, agentN, lastOn, maxOn, lastBy, maxBy,
          lastArrived, ops, budget, event, context, sends, wire, volumes, pc, result,
          calls, snapshots, process, fired, local>>

\* What the steps of the control protocol leave alone.
apart == <<wire, volumes, pc, result, calls, snapshots, process, fired, local>>

\* The variables of the control service and of the two stores.
service == <<connections, configuration, cluster_state>>
\* The history of the NodeStateCommands handled.
handled == <<lastOn, maxOn, lastBy, maxBy, lastArrived>>

\* No Eliot context was transferred.
NoContext == [action_type |-> "none", agent |-> 0]
\* LOG_SEND_TO_AGENT(self.logger, agent=connection): one action per connection
\* of a broadcast.
LOG_SEND_TO_AGENT(c) ==
    [action_type |-> "flocker:controlservice:send_state_to_agent", agent |-> c]
\* The action of agent a that is running when it reports.
AgentAction(a) == [action_type |-> "agent", agent |-> a]

NoSends == [recipients |-> {}, failed |-> {}, msgs |-> <<>>]
NoMsg == [configuration |-> "-", state |-> EmptyDeploymentState,
          eliot_context |-> NoContext, seq |-> 0]
Event(kind, c, changes, msg) ==
    [kind |-> kind, conn |-> c, changes |-> changes, msg |-> msg]
\* What the steps of the agents and of the transports leave in event.
Quiet == Event("other", 0, <<>>, NoMsg)

\* ------------------------------------------------ the OpenStack backend

\* The ids Cinder gives to volumes, in the order it gives them; none is reused.
VolIds == 1..(MaxCalls + 3)
\* The CinderBlockDeviceAPI objects: 1 and 2 are two agents of cluster "A" (or
\* one agent before and after a restart), 3 is an agent of cluster "B".
Drivers == {1, 2, 3}
cluster_id(d) == IF d = 3 THEN "B" ELSE "A"
\* compute_instance_id: the Nova server the driver runs on.
compute_instance_id(d) == IF d = 2 THEN "s2" ELSE "s1"
Servers == {"s1", "s2"}
\* Bytes are counted in halves of a GiB, so that a size need not be whole GiB.
GiB == 2
\* The (dataset_id, size) pairs create_volume is called with.
Requests == {<<"ds1", GiB>>, <<"ds2", GiB + 1>>}
None == "None"

\* A cinderclient Volume.  metadata.cluster and metadata.dataset are the values
\* under CLUSTER_ID_LABEL and DATASET_ID_LABEL, None when the key is missing;
\* size is in GiB; server is the server of the attachment the backend is making,
\* holds or is removing.
Volume(status, cluster, dataset, size, server) ==
    [status |-> status, metadata |-> [cluster |-> cluster, dataset |-> dataset],
     size |-> size, server |-> server]
\* The id has not been given to a volume yet.
NoVolume == Volume("none", None, None, 0, None)
\* The ids volume_manager.list() and get() know.
Listed == {id \in VolIds : volumes[id].status \notin {"none", "deleted"}}
\* Volume.attachments: Cinder shows the attachment from the moment it is made
\* until it is removed.
attachments(v) == IF v.status \in {"in-use", "detaching"} THEN {v.server} ELSE {}

BlockDeviceVolume(blockdevice_id, size, attached_to, dataset_id) ==
    [blockdevice_id |-> blockdevice_id, size |-> size, attached_to |-> attached_to,
     dataset_id |-> dataset_id]
NoBlockDeviceVolume == BlockDeviceVolume(0, 0, None, None)

\* _is_cluster_volume
is_cluster_volume(cid, cinder_volume) ==
    LET actual_cluster_id == cinder_volume.metadata.cluster
    IN  IF actual_cluster_id # None THEN actual_cluster_id = cid ELSE FALSE

\* _blockdevicevolume_from_cinder_volume
blockdevicevolume_from_cinder_volume(id, cinder_volume) ==
    LET server_id == IF attachments(cinder_volume) # {}
                     THEN CHOOSE x \in attachments(cinder_volume) : TRUE
                     ELSE None
    IN  BlockDeviceVolume(id, cinder_volume.size * GiB, server_id,
                          cinder_volume.metadata.dataset)

\* list_volumes returning what the backend lists, whatever the metadata says.
list_volumes_unfiltered(d) ==
    { blockdevicevolume_from_cinder_volume(id, volumes[id]) : id \in Listed }

\* CinderBlockDeviceAPI.list_volumes
list_volumes(d) ==
    { blockdevicevolume_from_cinder_volume(id, volumes[id]) :
          id \in {i \in Listed : is_cluster_volume(cluster_id(d), volumes[i])} }

\* A driver that is in no call, and the value of a call that has given none.
Ready == [op |-> "-", at |-> "idle", id |-> 0, arg |-> None, issued |-> FALSE,
          dataset_id |-> None, unattached_volume |-> NoBlockDeviceVolume]
NoResult == [by |-> 0, op |-> "-", id |-> 0, raised |-> "-", value |-> NoBlockDeviceVolume,
             listed |-> {}, issued |-> FALSE, args |-> <<>>]
\* What the call op of driver by for volume id gave: the exception it raised or its value
\* (listed for list_volumes), and whether it had sent its request to the backend.
\* args holds the states of the volume that the message of the exception says.
Result(by, op, id, raised, value, listed, issued) ==
    [by |-> by, op |-> op, id |-> id, raised |-> raised, value |-> value, listed |-> listed,
     issued |-> issued, args |-> <<>>]

\* No command is being followed.
Idle == [stage |-> "idle", command |-> "-", args |-> <<>>, box |-> <<>>, got |-> <<>>]

\* The backends a run may start with: volume 1 is a volume of another user of
\* the backend and has no Flocker metadata; volume 2, if there is one, was made for cluster "A" by an earlier create_volume and may have
\* been attached to server "s1" since.
StartVolumes ==
    { [id \in VolIds |-> IF id = 1 THEN v1 ELSE IF id = 2 THEN v2 ELSE NoVolume] :
          v1 \in {Volume("available", None, None, 1, None)},
          v2 \in {NoVolume, Volume("available", "A", "ds1", 1, None),
                  Volume("in-use", "A", "ds1", 1, "s1")} }

\* No driver is in a call.
InitDrivers ==
    /\ pc = [d \in Drivers |-> Ready]
    /\ result = NoResult
    /\ calls = 0

\* The control service after construction, no agent connected.
InitProtocol(inputs) ==
    /\ wire = Idle
    /\ budget = inputs
    /\ listening = TRUE
    /\ connections = {}
    /\ configuration = "d0"
    /\ cluster_state = EmptyDeploymentState
    /\ srv = [c \in ConnIds |-> "none"]
    /\ agt = [c \in ConnIds |-> "none"]
    /\ owner = [c \in ConnIds |-> 0]
    /\ toAgent = [c \in ConnIds |-> <<>>]
    /\ toServer = [c \in ConnIds |-> <<>>]
    /\ nrecv = [c \in ConnIds |-> 0]
    /\ cfgAtConnect = [c \in ConnIds |-> "-"]
    /\ cfgAtLoss = [c \in ConnIds |-> "-"]
    /\ agentN = [a \in Agents |-> 0]
    /\ lastOn = [c \in ConnIds |-> 0]
    /\ maxOn = [c \in ConnIds |-> 0]
    /\ lastBy = [a \in Agents |-> 0]
    /\ maxBy = [a \in Agents |-> 0]
    /\ lastArrived = [n \in Nodes |-> NoVal]
    /\ ops = 0
    /\ event = Event("init", 0, <<>>, NoMsg)
    /\ context = NoContext
    /\ sends = NoSends

\* No zfs process is running and none has run; the pool has no snapshot.
NoProcess == [state |-> "none", call |-> "-", filesystem |-> "-", name |-> <<>>,
              out |-> <<>>, _data |-> <<>>, reason |-> "-"]
NotFired == [call |-> "-", filesystem |-> "-", name |-> <<>>, _data |-> <<>>,
             raised |-> "-", value |-> <<>>, times |-> 0]
InitZFS ==
    /\ snapshots = {}
    /\ process = NoProcess
    /\ fired = NotFired

\* The one dataset of the cluster is a primary manifestation on n1, where "d0"
\* places it; no agent has heard from the control service or reported.
NoTarget == <<"-", EmptyDeploymentState>>
InitLocal ==
    local = [n \in Nodes |->
                [primary |-> (n = "n1"), target |-> NoTarget, reported |-> NoVal]]

InitWith(inputs) ==
    /\ InitProtocol(inputs)
    /\ volumes = [id \in VolIds |-> NoVolume]
    /\ InitDrivers
    /\ InitZFS
    /\ InitLocal

Init == InitWith(MaxOps)

\* ------------------------------------------- the cluster state service

\* IClusterStateChange.update_cluster_state: a NodeState replaces all the state
\* of its node, a NonManifestDatasets replaces the non-manifest set.
update_cluster_state(change, state) ==
    IF change.type = "NodeState"
    THEN [state EXCEPT !.nodes[change.node] = change.val]
    ELSE [state EXCEPT !.nonmanifest = change.val]

\* ClusterStateService.apply_changes: the changes are merged in list order.
RECURSIVE apply_changes(_, _)
apply_changes(state, changes) ==
    IF changes = <<>> THEN state
    ELSE apply_changes(update_cluster_state(Head(changes), state), Tail(changes))

\* ClusterStateService.as_deployment: the DeploymentState held right now.
as_deployment(state) == state

\* ------------------------------------------------- the control service

\* The arguments of one ClusterStatusCommand; seq numbers the commands that
\* travel on one connection and is not part of the payload.
ClusterStatusCommand(conf, state, eliot_context, seq) ==
    [configuration |-> conf, state |-> state, eliot_context |-> eliot_context,
     seq |-> seq]

\* The (configuration, state) a ClusterStatusCommand carries.
Payload(msg) == <<msg.configuration, msg.state>>

\* connection.callRemote: the command is written to the transport unless the
\* transport has already failed or is closing; then the Deferred fails or
\* never fires.
callRemoteSucceeds(c) == srv'[c] = "made"

\* The loop of _send_state_to_connections: one callRemote of ClusterStatusCommand
\* per connection with the pair read before the loop; the errback drops a
\* failure, so the loop goes on.  What is written to a connection whose agent
\* is gone travels nowhere.
callRemoteAll(conns, conf, state) ==
    LET msg(c) == ClusterStatusCommand(conf, state, LOG_SEND_TO_AGENT(c),
                                       nrecv[c] + Len(toAgent[c]) + 1)
        written == {c \in conns : callRemoteSucceeds(c)}
    IN  /\ toAgent' = [c \in ConnIds |->
                          IF c \in written /\ agt'[c] = "made"
                          THEN Append(toAgent[c], msg(c))
                          ELSE toAgent[c]]
        /\ sends' = [recipients |-> conns,
                     failed |-> conns \ written,
                     msgs |-> [c \in conns |-> msg(c)]]

\* _send_state_to_connections reading the state inside the loop from a cache
\* that only the first connection's turn refreshes.
send_state_to_connections_reads_in_loop(conns) ==
    LET first == IF conns = {} THEN 0 ELSE CHOOSE c \in conns : \A d \in conns : c <= d
        msg(c) == ClusterStatusCommand(
                      configuration',
                      IF c = first THEN as_deployment(cluster_state')
                      ELSE as_deployment(cluster_state),
                      LOG_SEND_TO_AGENT(c),
                      nrecv[c] + Len(toAgent[c]) + 1)
        written == {c \in conns : callRemoteSucceeds(c)}
    IN  /\ toAgent' = [c \in ConnIds |->
                          IF c \in written /\ agt'[c] = "made"
                          THEN Append(toAgent[c], msg(c))
                          ELSE toAgent[c]]
        /\ sends' = [recipients |-> conns,
                     failed |-> conns \ written,
                     msgs |-> [c \in conns |-> msg(c)]]

\* _send_state_to_connections without the errback: the first failure ends the
\* loop, here before any other connection had its turn.
send_state_to_connections_stops_at_failure(conns) ==
    LET msg(c) == ClusterStatusCommand(configuration', as_deployment(cluster_state'),
                                       LOG_SEND_TO_AGENT(c),
                                       nrecv[c] + Len(toAgent[c]) + 1)
        failed == {c \in conns : ~callRemoteSucceeds(c)}
        written == IF failed = {} THEN conns ELSE {}
    IN  /\ toAgent' = [c \in ConnIds |->
                          IF c \in written /\ agt'[c] = "made"
                          THEN Append(toAgent[c], msg(c))
                          ELSE toAgent[c]]
        /\ sends' = [recipients |-> conns,
                     failed |-> failed,
                     msgs |-> [c \in conns |-> msg(c)]]

\* ControlAMPService._send_state_to_connections, called once the handler has
\* updated the stores and the connection set: configuration_service.get() and
\* cluster_state.as_deployment() are read once, then sent to each connection.
send_state_to_connections(conns) ==
    callRemoteAll(conns, configuration', as_deployment(cluster_state'))

\* connected without its second line: the new connection hears nothing until
\* the next change.
connected_says_nothing(c) ==
    /\ connections' = connections \cup {c}
    /\ UNCHANGED <<configuration, cluster_state, toAgent>>
    /\ sends' = NoSends

\* connected telling every connection, as the other two handlers do.
connected_tells_all(c) ==
    /\ connections' = connections \cup {c}
    /\ UNCHANGED <<configuration, cluster_state>>
    /\ send_state_to_connections(connections')

\* ControlAMPService.connected.
connected(c) ==
    /\ connections' = connections \cup {c}
    /\ UNCHANGED <<configuration, cluster_state>>
    /\ send_state_to_connections({c})

\* disconnected leaving the connection in the set.
disconnected_keeps(c) ==
    /\ UNCHANGED <<connections, configuration, cluster_state, toAgent>>
    /\ sends' = NoSends

\* ControlAMPService.disconnected.
disconnected(c) ==
    /\ connections' = connections \ {c}
    /\ UNCHANGED <<configuration, cluster_state, toAgent>>
    /\ sends' = NoSends

\* node_changed applying the first change of the list only.
node_changed_first_change_only(state_changes) ==
    /\ cluster_state' = apply_changes(cluster_state, SubSeq(state_changes, 1, 1))
    /\ UNCHANGED <<configuration, connections>>
    /\ send_state_to_connections(connections')

\* node_changed with the two lines swapped: the agents are told before the
\* changes are applied.
node_changed_sends_first(state_changes) ==
    /\ cluster_state' = apply_changes(cluster_state, state_changes)
    /\ UNCHANGED <<configuration, connections>>
    /\ callRemoteAll(connections', configuration', as_deployment(cluster_state))

\* node_changed telling the agents only of a change: a report that leaves the
\* cluster state as it was is not broadcast.
node_changed_quiet_when_unchanged(state_changes) ==
    /\ cluster_state' = apply_changes(cluster_state, state_changes)
    /\ UNCHANGED <<configuration, connections>>
    /\ IF cluster_state' = cluster_state
       THEN /\ UNCHANGED toAgent
            /\ sends' = NoSends
       ELSE send_state_to_connections(connections')

\* ControlAMPService.node_changed.
node_changed(state_changes) ==
    /\ cluster_state' = apply_changes(cluster_state, state_changes)
    /\ UNCHANGED <<configuration, connections>>
    /\ send_state_to_connections(connections')

\* The callback starting the agents afresh: the cluster state is forgotten.
configuration_changed_forgets_state ==
    /\ cluster_state' = EmptyDeploymentState
    /\ UNCHANGED connections
    /\ send_state_to_connections(connections')

\* The callback with the connection set taken when it was registered, in
\* __init__, where the set is still empty.
configuration_changed_set_at_registration ==
    /\ UNCHANGED <<cluster_state, connections>>
    /\ send_state_to_connections({})

\* The callback ControlAMPService.__init__ registers with the configuration
\* service: lambda: self._send_state_to_connections(self.connections).
configuration_changed ==
    /\ UNCHANGED <<cluster_state, connections>>
    /\ send_state_to_connections(connections')

\* ConfigurationPersistenceService.save: the new Deployment is made durable, then
\* every registered callback is called.
save(deployment) ==
    /\ configuration' = deployment
    /\ configuration_changed

\* ---------------------------------------------------------------- actions

\* An agent opens connection c to the control service.  On the agent,
\* AgentAMP.connectionMade calls agent.connected; on the control service,
\* ControlAMP.connectionMade calls AMP.connectionMade, then connected(self).
\* An agent has one connection at a time; a connection it lost is followed by a
\* new one.
ConnectionMade(c, a) ==
    /\ UNCHANGED apart
    /\ context' = NoContext
    /\ listening
    /\ UNCHANGED listening
    /\ ops < budget
    /\ ops' = ops + 1
    /\ UNCHANGED budget
    /\ agt[c] = "none"
    /\ \A b \in ConnIds : b < c => agt[b] # "none"
    /\ \A b \in Agents : b < a => \E d \in ConnIds : owner[d] = b
    /\ \A b \in ConnIds : owner[b] = a => agt[b] = "lost"
    /\ agt' = [agt EXCEPT ![c] = "made"]
    /\ owner' = [owner EXCEPT ![c] = a]
    /\ srv' = [srv EXCEPT ![c] = "made"]
    /\ connected(c)
    /\ cfgAtConnect' = [cfgAtConnect EXCEPT ![c] = configuration]
    /\ event' = Event("connected", c, <<>>, NoMsg)
    /\ UNCHANGED <<handled, toServer, nrecv, cfgAtLoss, agentN>>

\* connectionLost calling agent.disconnected first and then handing the command
\* that was buffered to the responder.
AgentConnectionLost_delivers_pending(c) ==
    /\ UNCHANGED apart
    /\ context' = NoContext
    /\ UNCHANGED listening
    /\ agt[c] = "made"
    /\ agt' = [agt EXCEPT ![c] = "lost"]
    /\ toAgent' = [toAgent EXCEPT ![c] = <<>>]
    /\ nrecv' = [nrecv EXCEPT ![c] = 0]
    /\ cfgAtConnect' = [cfgAtConnect EXCEPT ![c] = "-"]
    /\ cfgAtLoss' = [cfgAtLoss EXCEPT ![c] = configuration]
    /\ event' = IF toAgent[c] # <<>>
                THEN Event("cluster_updated", c, <<>>, Head(toAgent[c]))
                ELSE Quiet
    /\ sends' = NoSends
    /\ UNCHANGED <<service, handled, srv, owner, toServer, agentN, ops, budget>>

\* AgentAMP.connectionLost calls agent.disconnected.  What was in flight to the
\* agent is never delivered.
AgentConnectionLost(c) ==
    /\ UNCHANGED apart
    /\ context' = NoContext
    /\ UNCHANGED listening
    /\ agt[c] = "made"
    /\ agt' = [agt EXCEPT ![c] = "lost"]
    /\ toAgent' = [toAgent EXCEPT ![c] = <<>>]
    /\ nrecv' = [nrecv EXCEPT ![c] = 0]
    /\ cfgAtConnect' = [cfgAtConnect EXCEPT ![c] = "-"]
    /\ cfgAtLoss' = [cfgAtLoss EXCEPT ![c] = configuration]
    /\ event' = Quiet
    /\ sends' = NoSends
    /\ UNCHANGED <<service, handled, srv, owner, toServer, agentN, ops, budget>>

\* The transport of connection c fails or starts closing; connectionLost has
\* not been called yet, and nothing more is read from the transport.
TransportFails(c) ==
    /\ UNCHANGED apart
    /\ context' = NoContext
    /\ UNCHANGED listening
    /\ srv[c] = "made"
    /\ srv' = [srv EXCEPT ![c] = "broken"]
    /\ toServer' = [toServer EXCEPT ![c] = <<>>]
    /\ event' = Quiet
    /\ sends' = NoSends
    /\ UNCHANGED <<service, handled, agt, owner, toAgent, nrecv, cfgAtConnect,
                   cfgAtLoss, agentN, ops, budget>>

\* ControlAMP.connectionLost: AMP.connectionLost, then disconnected(self).
ControlConnectionLost(c) ==
    /\ UNCHANGED apart
    /\ context' = NoContext
    /\ UNCHANGED listening
    /\ srv[c] \in {"made", "closing", "broken"}
    /\ srv' = [srv EXCEPT ![c] = "lost"]
    /\ toServer' = [toServer EXCEPT ![c] = <<>>]
    /\ disconnected(c)
    /\ lastOn' = [lastOn EXCEPT ![c] = 0]
    /\ maxOn' = [maxOn EXCEPT ![c] = 0]
    /\ event' = Event("disconnected", c, <<>>, NoMsg)
    /\ UNCHANGED <<lastBy, maxBy, lastArrived, agt, owner, nrecv, cfgAtConnect,
                   cfgAtLoss, agentN, ops, budget>>

\* stopService that stops listening and leaves the connections open.
stopService_leaves_connections ==
    /\ listening' = FALSE
    /\ UNCHANGED <<srv, connections>>

\* ControlAMPService.stopService: the endpoint service stops listening, and
\* transport.loseConnection() is called on every connection of the set.  The
\* set itself is left to the connectionLost calls that follow.
stopService ==
    /\ listening' = FALSE
    /\ srv' = [c \in ConnIds |->
                  IF c \in connections /\ srv[c] = "made" THEN "closing" ELSE srv[c]]
    /\ UNCHANGED connections

\* The control service is stopped.
StopService ==
    /\ UNCHANGED apart
    /\ context' = NoContext
    /\ listening
    /\ stopService
    /\ event' = Event("stopped", 0, <<>>, NoMsg)
    /\ sends' = NoSends
    /\ UNCHANGED <<configuration, cluster_state, handled, agt, owner, toAgent, toServer,
                   nrecv, cfgAtConnect, cfgAtLoss, agentN, ops, budget>>

\* The operator changes the Deployment through the REST API.
Save(deployment) ==
    /\ UNCHANGED apart
    /\ context' = NoContext
    /\ UNCHANGED listening
    /\ deployment # configuration
    /\ ops < budget
    /\ ops' = ops + 1
    /\ UNCHANGED budget
    /\ UNCHANGED <<srv, agt>>
    /\ save(deployment)
    /\ event' = Event("configuration_changed", 0, <<>>,
                       [NoMsg EXCEPT !.configuration = deployment])
    /\ UNCHANGED <<handled, owner, toServer, nrecv, cfgAtConnect, cfgAtLoss, agentN>>

\* Command.arguments of the three commands.
arguments(command) ==
    CASE command = "VersionCommand" -> {}
      [] command = "ClusterStatusCommand" -> {"configuration", "state", "eliot_context"}
      [] command = "NodeStateCommand" -> {"state_changes", "eliot_context"}

\* A command on its way to the control service.  The command is the n-th report
\* of agent by; by and n are not part of what is sent.  An argument the command
\* does not declare is not sent.
ToServer(command, state_changes, eliot_context, by, n) ==
    [command |-> command,
     state_changes |-> IF "state_changes" \in arguments(command)
                       THEN state_changes ELSE <<>>,
     eliot_context |-> IF "eliot_context" \in arguments(command)
                       THEN eliot_context ELSE NoContext,
     by |-> by, n |-> n]

\* An agent reports: client.callRemote(NodeStateCommand, state_changes=...).
\* The command is the n-th of agent by; by and n are not part of the payload.
\* What is written to a connection the control service no longer reads is lost.
AgentSendsNodeState(c, state_changes) ==
    /\ UNCHANGED apart
    /\ context' = NoContext
    /\ UNCHANGED listening
    /\ agt[c] = "made"
    /\ ops < budget
    /\ ops' = ops + 1
    /\ UNCHANGED budget
    /\ agentN' = [agentN EXCEPT ![owner[c]] = @ + 1]
    /\ toServer' = [toServer EXCEPT ![c] =
           IF srv[c] \in {"made", "closing"}
           THEN Append(@, ToServer("NodeStateCommand", state_changes,
                                   AgentAction(owner[c]), owner[c],
                                   agentN[owner[c]] + 1))
           ELSE @]
    /\ event' = Quiet
    /\ sends' = NoSends
    /\ UNCHANGED <<service, handled, srv, agt, owner, toAgent, nrecv, cfgAtConnect, cfgAtLoss>>

\* The last NodeState for node n in a list of changes, NoVal when there is none.
RECURSIVE LastFor(_, _)
LastFor(n, changes) ==
    IF changes = <<>> THEN NoVal
    ELSE LET last == changes[Len(changes)]
         IN  IF last.type = "NodeState" /\ last.node = n THEN last.val
             ELSE LastFor(n, SubSeq(changes, 1, Len(changes) - 1))

Max(i, j) == IF i > j THEN i ELSE j

\* The responder run for the newest command in flight, not the oldest.
NodeStateReceived_newest_first(c) ==
    /\ UNCHANGED apart
    /\ UNCHANGED listening
    /\ srv[c] \in {"made", "closing"}
    /\ toServer[c] # <<>>
    /\ toServer[c][Len(toServer[c])].command = "NodeStateCommand"
    /\ LET cmd == toServer[c][Len(toServer[c])]
       IN  /\ toServer' = [toServer EXCEPT ![c] = SubSeq(@, 1, Len(@) - 1)]
           /\ UNCHANGED <<srv, agt>>
           /\ node_changed(cmd.state_changes)
           /\ lastOn' = [lastOn EXCEPT ![c] = cmd.n]
           /\ maxOn' = [maxOn EXCEPT ![c] = Max(@, cmd.n)]
           /\ lastBy' = [lastBy EXCEPT ![cmd.by] = cmd.n]
           /\ maxBy' = [maxBy EXCEPT ![cmd.by] = Max(@, cmd.n)]
           /\ lastArrived' = [n \in Nodes |->
                                 IF LastFor(n, cmd.state_changes) # NoVal
                                 THEN LastFor(n, cmd.state_changes)
                                 ELSE lastArrived[n]]
           /\ event' = Event("node_changed", c, cmd.state_changes, NoMsg)
           /\ context' = cmd.eliot_context
    /\ UNCHANGED <<owner, nrecv, cfgAtConnect, cfgAtLoss, agentN, ops, budget>>

\* ControlServiceLocator.node_changed: the responder of NodeStateCommand, run for
\* the commands of a connection in the order the transport delivers them.
NodeStateReceived(c) ==
    /\ UNCHANGED apart
    /\ UNCHANGED listening
    /\ srv[c] \in {"made", "closing"}
    /\ toServer[c] # <<>>
    /\ Head(toServer[c]).command = "NodeStateCommand"
    /\ LET cmd == Head(toServer[c])
       IN  /\ toServer' = [toServer EXCEPT ![c] = Tail(@)]
           /\ UNCHANGED <<srv, agt>>
           /\ node_changed(cmd.state_changes)
           /\ lastOn' = [lastOn EXCEPT ![c] = cmd.n]
           /\ maxOn' = [maxOn EXCEPT ![c] = Max(@, cmd.n)]
           /\ lastBy' = [lastBy EXCEPT ![cmd.by] = cmd.n]
           /\ maxBy' = [maxBy EXCEPT ![cmd.by] = Max(@, cmd.n)]
           /\ lastArrived' = [n \in Nodes |->
                                 IF LastFor(n, cmd.state_changes) # NoVal
                                 THEN LastFor(n, cmd.state_changes)
                                 ELSE lastArrived[n]]
           /\ event' = Event("node_changed", c, cmd.state_changes, NoMsg)
           /\ context' = cmd.eliot_context
    /\ UNCHANGED <<owner, nrecv, cfgAtConnect, cfgAtLoss, agentN, ops, budget>>

\* The major version of the protocol that agent a speaks: the second agent to
\* join the cluster runs a build of the next major version.
AgentMajor(a) == IF a = 2 THEN 2 ELSE 1

\* A peer asks for the version: callRemote(VersionCommand).
AgentAsksVersion(c) ==
    /\ UNCHANGED apart
    /\ agt[c] = "made"
    /\ ops < budget
    /\ ops' = ops + 1
    /\ toServer' = [toServer EXCEPT ![c] =
           IF srv[c] \in {"made", "closing"}
           THEN Append(@, ToServer("VersionCommand", <<>>, AgentAction(owner[c]),
                                   owner[c], 0))
           ELSE @]
    /\ event' = Quiet
    /\ context' = NoContext
    /\ sends' = NoSends
    /\ UNCHANGED <<listening, service, handled, srv, agt, owner, toAgent, nrecv,
                   cfgAtConnect, cfgAtLoss, agentN, budget>>

\* ControlServiceLocator.version: the response of VersionCommand.
version == [major |-> 1]

\* The responder of VersionCommand runs; it takes no context and checks nothing.
VersionReceived(c) ==
    /\ UNCHANGED apart
    /\ srv[c] \in {"made", "closing"}
    /\ toServer[c] # <<>>
    /\ Head(toServer[c]).command = "VersionCommand"
    /\ toServer' = [toServer EXCEPT ![c] = Tail(@)]
    /\ event' = Event("version", c, <<>>, version)
    /\ context' = Head(toServer[c]).eliot_context
    /\ sends' = NoSends
    /\ UNCHANGED <<listening, service, handled, srv, agt, owner, toAgent, nrecv,
                   cfgAtConnect, cfgAtLoss, agentN, ops, budget>>

\* cluster_updated called for the newest command in flight, not the oldest.
ClusterStatusReceived_newest_first(c) ==
    /\ UNCHANGED apart
    /\ UNCHANGED listening
    /\ agt[c] = "made"
    /\ toAgent[c] # <<>>
    /\ nrecv' = [nrecv EXCEPT ![c] = @ + 1]
    /\ toAgent' = [toAgent EXCEPT ![c] = SubSeq(@, 1, Len(@) - 1)]
    /\ event' = Event("cluster_updated", c, <<>>, toAgent[c][Len(toAgent[c])])
    /\ context' = toAgent[c][Len(toAgent[c])].eliot_context
    /\ sends' = NoSends
    /\ UNCHANGED <<service, handled, srv, agt, owner, toServer, cfgAtConnect,
                   cfgAtLoss, agentN, ops, budget>>

\* _AgentLocator.cluster_updated: the responder of ClusterStatusCommand calls
\* agent.cluster_updated(configuration, state).
ClusterStatusReceived(c) ==
    /\ UNCHANGED apart
    /\ UNCHANGED listening
    /\ agt[c] = "made"
    /\ toAgent[c] # <<>>
    /\ nrecv' = [nrecv EXCEPT ![c] = @ + 1]
    /\ toAgent' = [toAgent EXCEPT ![c] = Tail(@)]
    /\ event' = Event("cluster_updated", c, <<>>, Head(toAgent[c]))
    /\ context' = Head(toAgent[c]).eliot_context
    /\ sends' = NoSends
    /\ UNCHANGED <<service, handled, srv, agt, owner, toServer, cfgAtConnect,
                   cfgAtLoss, agentN, ops, budget>>

Next ==
    \/ \E c \in ConnIds, a \in Agents : ConnectionMade(c, a)
    \/ \E c \in ConnIds : AgentConnectionLost(c)
    \/ \E c \in ConnIds : TransportFails(c)
    \/ \E c \in ConnIds : ControlConnectionLost(c)
    \/ \E d \in Deployments : Save(d)
    \/ \E c \in ConnIds, ch \in ChangeLists : AgentSendsNodeState(c, ch)
    \/ \E c \in ConnIds : NodeStateReceived(c)
    \/ \E c \in ConnIds : ClusterStatusReceived(c)

Spec == Init /\ [][Next]_vars

\* The agents' reports alone, with one more input: no configuration change, no
\* transport failure before connectionLost, and the ClusterStatusCommands stay in
\* flight.
NextReports ==
    \/ \E c \in ConnIds, a \in Agents : ConnectionMade(c, a)
    \/ \E c \in ConnIds : AgentConnectionLost(c)
    \/ \E c \in ConnIds : ControlConnectionLost(c)
    \/ \E c \in ConnIds, ch \in ChangeLists : AgentSendsNodeState(c, ch)
    \/ \E c \in ConnIds : NodeStateReceived(c)

SpecReports == InitWith(MaxOps + 1) /\ [][NextReports]_vars

\* The control service until and after it is stopped, the agents staying up.
NextStop ==
    \/ \E c \in ConnIds, a \in Agents : ConnectionMade(c, a)
    \/ \E c \in ConnIds : ControlConnectionLost(c)
    \/ \E d \in Deployments : Save(d)
    \/ \E c \in ConnIds, ch \in ChangeLists : AgentSendsNodeState(c, ch)
    \/ \E c \in ConnIds : NodeStateReceived(c)
    \/ StopService

SpecStop == Init /\ [][NextStop]_vars

\* ------------------------------------------------- SerializableArgument

\* The objects handed to the two commands: instances of the four classes the
\* commands declare and of one they do not (Node), each with what tells two
\* instances of its class apart.
Object(class, node, val) == [type |-> class, node |-> node, val |-> val]
Objects ==
    { Object("Deployment", "-", "d0"), Object("Deployment", "-", "d1"),
      Object("DeploymentState", "-", "v1"),
      NodeState("n1", "v1"), NodeState("n2", "v2"), NonManifestDatasets("v1"),
      Object("Node", "n1", "v1") }

\* What a call gives: a value, or the exception it raised.
Returned(value) == [raised |-> "-", value |-> value]
Raised(exception) == [raised |-> exception, value |-> <<>>]

\* wire_encode: the bytes name the class of the object and hold its fields.
wire_encode(obj) == <<"$__class__", obj.type, obj.node, obj.val>>
\* wire_decode: the object of the class the bytes name.
wire_decode(in_bytes) == [type |-> in_bytes[2], node |-> in_bytes[3], val |-> in_bytes[4]]

\* isinstance(obj, self._expected_classes)
isinstance(obj, classes) == obj.type \in classes

\* fromString making an object of the first expected class of what it decoded.
fromString_coerces(classes, in_bytes) ==
    LET obj == wire_decode(in_bytes)
        first == CHOOSE k \in classes : \A l \in classes : Len(k) <= Len(l)
    IN  IF ~isinstance(obj, classes) THEN Raised("TypeError")
        ELSE Returned([obj EXCEPT !.type = first])

\* fromString without the isinstance check.
fromString_unchecked(classes, in_bytes) == Returned(wire_decode(in_bytes))

\* SerializableArgument.fromString
fromString(classes, in_bytes) ==
    LET obj == wire_decode(in_bytes)
    IN  IF ~isinstance(obj, classes) THEN Raised("TypeError") ELSE Returned(obj)

\* SerializableArgument.toString
toString(classes, obj) ==
    IF ~isinstance(obj, classes) THEN Raised("TypeError")
    ELSE Returned(wire_encode(obj))

\* The classes each argument of a command declares; the elements of
\* state_changes are the arguments of a NodeStateCommand.
expected_classes(command, i) ==
    CASE command = "ClusterStatusCommand" /\ i = 1 -> {"Deployment"}
      [] command = "ClusterStatusCommand" /\ i = 2 -> {"DeploymentState"}
      [] command = "NodeStateCommand" -> {"NodeState", "NonManifestDatasets"}

\* The argument lists a caller may hand to a command.
Calls ==
    { <<"ClusterStatusCommand", <<conf, state>> >> : conf \in Objects, state \in Objects }
    \cup { <<"NodeStateCommand", <<>> >> }
    \cup { <<"NodeStateCommand", <<x>> >> : x \in Objects }
    \cup { <<"NodeStateCommand", <<x, y>> >> : x \in Objects, y \in Objects }

\* callRemote(command, ...): every argument goes through toString; if one raises
\* nothing is written.
CallRemote(command, args) ==
    /\ UNCHANGED <<volumes, pc, result, calls, snapshots, process, fired, local>>
    /\ wire.stage = "idle"
    /\ LET out == [i \in 1..Len(args) |-> toString(expected_classes(command, i), args[i])]
       IN  wire' = IF \E i \in 1..Len(args) : out[i].raised # "-"
                   THEN [stage |-> "raised", command |-> command, args |-> args,
                         box |-> <<>>, got |-> <<>>]
                   ELSE [stage |-> "sent", command |-> command, args |-> args,
                         box |-> [i \in 1..Len(args) |-> out[i].value], got |-> <<>>]
    /\ event' = Quiet
    /\ context' = NoContext
    /\ sends' = NoSends
    /\ UNCHANGED <<listening, service, handled, srv, agt, owner, toAgent, toServer,
                   nrecv, cfgAtConnect, cfgAtLoss, agentN, ops, budget>>

\* A peer that is not this code writes the command: whatever objects the bytes
\* name, they are well-formed output of wire_encode.
PeerWrites(command, args) ==
    /\ UNCHANGED <<volumes, pc, result, calls, snapshots, process, fired, local>>
    /\ wire.stage = "idle"
    /\ wire' = [stage |-> "sent", command |-> command, args |-> <<>>,
                box |-> [i \in 1..Len(args) |-> wire_encode(args[i])], got |-> <<>>]
    /\ event' = Quiet
    /\ context' = NoContext
    /\ sends' = NoSends
    /\ UNCHANGED <<listening, service, handled, srv, agt, owner, toAgent, toServer,
                   nrecv, cfgAtConnect, cfgAtLoss, agentN, ops, budget>>

\* The command arrives: every argument goes through fromString, and the
\* responder (node_changed on the control service, cluster_updated on an agent)
\* is called with the objects unless one raised.
BoxReceived ==
    /\ UNCHANGED <<volumes, pc, result, calls, snapshots, process, fired, local>>
    /\ wire.stage = "sent"
    /\ UNCHANGED <<srv, agt>>
    /\ LET in == [i \in 1..Len(wire.box) |->
                     fromString(expected_classes(wire.command, i), wire.box[i])]
           objs == [i \in 1..Len(wire.box) |-> in[i].value]
       IN  IF \E i \in 1..Len(wire.box) : in[i].raised # "-"
           THEN /\ wire' = [wire EXCEPT !.stage = "rejected"]
                /\ event' = Quiet
                /\ sends' = NoSends
                /\ UNCHANGED <<service, toAgent>>
           ELSE /\ wire' = [wire EXCEPT !.stage = "handled", !.got = objs]
                /\ IF wire.command = "NodeStateCommand"
                   THEN /\ node_changed(objs)
                        /\ event' = Event("node_changed", 0, objs, NoMsg)
                   ELSE /\ event' = Event("cluster_updated", 0, objs, NoMsg)
                        /\ sends' = NoSends
                        /\ UNCHANGED <<service, toAgent>>
    /\ context' = NoContext
    /\ UNCHANGED <<listening, handled, owner, toServer, nrecv, cfgAtConnect, cfgAtLoss,
                   agentN, ops, budget>>

\* The next command can be followed.
CommandDone ==
    /\ UNCHANGED <<volumes, pc, result, calls, snapshots, process, fired, local>>
    /\ wire.stage \in {"raised", "rejected", "handled"}
    /\ wire' = Idle
    /\ event' = Quiet
    /\ context' = NoContext
    /\ sends' = NoSends
    /\ UNCHANGED <<listening, service, handled, srv, agt, owner, toAgent, toServer,
                   nrecv, cfgAtConnect, cfgAtLoss, agentN, ops, budget>>

NextWire ==
    \/ \E call \in Calls : CallRemote(call[1], call[2])
    \/ \E call \in Calls : PeerWrites(call[1], call[2])
    \/ BoxReceived
    \/ CommandDone

SpecWire == Init /\ [][NextWire]_vars

\* ------------------------------------------------ CinderBlockDeviceAPI

\* What every step of the drivers and of the backend leaves alone.
protocol == <<listening, connections, configuration, cluster_state, srv, agt, owner,
              toAgent, toServer, nrecv, cfgAtConnect, cfgAtLoss, agentN, lastOn, maxOn,
              lastBy, maxBy, lastArrived, ops, budget, event, context, sends, wire,
              snapshots, process, fired, local>>

\* The next id Cinder gives: the ids after those a run may start with are given
\* in order.
NextId == CHOOSE id \in VolIds \ {1, 2} :
              /\ volumes[id].status = "none"
              /\ \A j \in 3..(id - 1) : volumes[j].status # "none"

\* The backend finishes what it was asked to do.  An attachment that cannot be
\* made leaves the volume available.
BackendSettles(id) ==
    /\ volumes[id].status \in {"creating", "attaching", "detaching", "deleting"}
    /\ \E to \in CASE volumes[id].status = "creating" -> {"available"}
                   [] volumes[id].status = "attaching" -> {"in-use", "available"}
                   [] volumes[id].status = "detaching" -> {"available"}
                   [] volumes[id].status = "deleting" -> {"deleted"} :
          volumes' = [volumes EXCEPT ![id] =
              IF to = "deleted" THEN [NoVolume EXCEPT !.status = "deleted"]
              ELSE [@ EXCEPT !.status = to,
                             !.server = IF to = "available" THEN None ELSE @]]
    /\ result' = NoResult
    /\ UNCHANGED <<protocol, pc, calls>>

\* A call of driver d starts.
Starts(d) ==
    /\ pc[d].at = "idle"
    /\ calls < MaxCalls
    /\ calls' = calls + 1

\* create_volume leaving CLUSTER_ID_LABEL out of the metadata.
create_volume_untagged(d, dataset_id, size) ==
    /\ Starts(d)
    /\ \E granted \in {size \div GiB, (size + GiB - 1) \div GiB} :
          volumes' = [volumes EXCEPT ![NextId] =
              Volume("creating", None, dataset_id, granted, None)]
    /\ pc' = [pc EXCEPT ![d] = [Ready EXCEPT !.op = "create_volume", !.at = "wait",
                                             !.id = NextId, !.arg = "available",
                                             !.dataset_id = dataset_id]]
    /\ result' = NoResult
    /\ UNCHANGED protocol

\* create_volume up to wait_for_volume: cinder_volume_manager.create with the
\* size in GiB and the two labels as metadata.  The size the backend gives to a
\* request that is not whole GiB is the backend's matter.
create_volume(d, dataset_id, size) ==
    /\ Starts(d)
    /\ \E granted \in {size \div GiB, (size + GiB - 1) \div GiB} :
          volumes' = [volumes EXCEPT ![NextId] =
              Volume("creating", cluster_id(d), dataset_id, granted, None)]
    /\ pc' = [pc EXCEPT ![d] = [Ready EXCEPT !.op = "create_volume", !.at = "wait",
                                             !.id = NextId, !.arg = "available",
                                             !.dataset_id = dataset_id]]
    /\ result' = NoResult
    /\ UNCHANGED protocol

\* What the call that is in wait_for_volume returns once the wait is over.
\* attach_volume returns unattached_volume.set('attached_to', attach_to), which
\* the call holds from its request on; the listed volume is not looked at.
returns(d, listed_volume) ==
    CASE pc[d].op = "create_volume" ->
             Result(d, "create_volume", pc[d].id, "-",
                    blockdevicevolume_from_cinder_volume(pc[d].id, listed_volume),
                    {}, TRUE)
      [] pc[d].op = "attach_volume" ->
             Result(d, "attach_volume", pc[d].id, "-", pc[d].unattached_volume, {}, TRUE)
      [] pc[d].op = "detach_volume" ->
             Result(d, "detach_volume", pc[d].id, "-", NoBlockDeviceVolume, {}, TRUE)

\* wait_for_volume returning the first time the volume is listed at all.
wait_for_volume_any_status(d) ==
    /\ pc[d].at = "wait"
    /\ pc[d].id \in Listed
    /\ result' = returns(d, volumes[pc[d].id])
    /\ pc' = [pc EXCEPT ![d] = Ready]
    /\ UNCHANGED <<protocol, volumes, calls>>

\* wait_for_volume, the pass of the loop that lists the expected volume with
\* the expected status: the call returns.
wait_for_volume(d) ==
    /\ pc[d].at = "wait"
    /\ pc[d].id \in Listed
    /\ volumes[pc[d].id].status = pc[d].arg
    /\ result' = returns(d, volumes[pc[d].id])
    /\ pc' = [pc EXCEPT ![d] = Ready]
    /\ UNCHANGED <<protocol, volumes, calls>>

\* wait_for_volume checking the time before it lists: with no time left it
\* raises without having looked.
wait_for_volume_times_out_before_listing(d) ==
    /\ pc[d].at = "wait"
    /\ result' =
           [Result(d, pc[d].op, pc[d].id, "Exception", NoBlockDeviceVolume, {}, TRUE)
                EXCEPT !.args = <<pc[d].arg>>]
    /\ pc' = [pc EXCEPT ![d] = Ready]
    /\ UNCHANGED <<protocol, volumes, calls>>

\* wait_for_volume, a pass of the loop that does not find the volume so, after
\* the time limit: raise Exception('Timed out while waiting for volume. ...'),
\* the message being made of expected_volume (which prints as its id),
\* expected_status, elapsed_time and time_limit.
wait_for_volume_times_out(d) ==
    /\ pc[d].at = "wait"
    /\ ~(pc[d].id \in Listed /\ volumes[pc[d].id].status = pc[d].arg)
    /\ result' =
           [Result(d, pc[d].op, pc[d].id, "Exception", NoBlockDeviceVolume, {}, TRUE)
                EXCEPT !.args = <<pc[d].arg>>]
    /\ pc' = [pc EXCEPT ![d] = Ready]
    /\ UNCHANGED <<protocol, volumes, calls>>

\* A call of list_volumes.
ListVolumes(d) ==
    /\ Starts(d)
    /\ result' =
           Result(d, "list_volumes", 0, "-", NoBlockDeviceVolume, list_volumes(d), FALSE)
    /\ UNCHANGED <<protocol, volumes, pc>>

\* FilePath(attachment['device']): the device file Nova gave to the attachment,
\* known here by the server the attachment is on.
FilePath(attachment) == [device_on |-> attachment]

\* get_device_path telling an unattached volume from an attached one by its
\* status alone.
get_device_path_by_status(blockdevice_id) ==
    IF blockdevice_id \notin Listed THEN Raised("UnknownVolume")
    ELSE IF volumes[blockdevice_id].status = "available" THEN Raised("UnattachedVolume")
    ELSE Returned(FilePath(volumes[blockdevice_id].server))

\* CinderBlockDeviceAPI.get_device_path: cinder_volume_manager.get, then the
\* one attachment of the volume.
get_device_path(blockdevice_id) ==
    IF blockdevice_id \notin Listed THEN Raised("UnknownVolume")
    ELSE LET cinder_volume == volumes[blockdevice_id]
         IN  IF Cardinality(attachments(cinder_volume)) # 1
             THEN Raised("UnattachedVolume")
             ELSE Returned(FilePath(CHOOSE attachment \in attachments(cinder_volume) : TRUE))

\* A call of get_device_path.
GetDevicePath(d, blockdevice_id) ==
    /\ Starts(d)
    /\ LET path == get_device_path(blockdevice_id)
       IN  result' = Result(d, "get_device_path", blockdevice_id, path.raised,
                            IF path.raised = "-" THEN path.value ELSE NoBlockDeviceVolume,
                            {}, FALSE)
    /\ UNCHANGED <<protocol, volumes, pc>>

\* get_blockdevice_volume(api, blockdevice_id): the volume of that id among
\* api.list_volumes(), UnknownVolume when there is none.
get_blockdevice_volume(d, blockdevice_id) ==
    IF \E v \in list_volumes(d) : v.blockdevice_id = blockdevice_id
    THEN Returned(CHOOSE v \in list_volumes(d) : v.blockdevice_id = blockdevice_id)
    ELSE Raised("UnknownVolume")

\* attach_volume without the attached_to check.
attach_volume_unchecked(d, blockdevice_id, attach_to) ==
    /\ Starts(d)
    /\ LET unattached_volume == get_blockdevice_volume(d, blockdevice_id)
       IN  IF unattached_volume.raised # "-"
           THEN /\ result' =
                       Result(d, "attach_volume", blockdevice_id, unattached_volume.raised,
                              NoBlockDeviceVolume, {}, FALSE)
                /\ UNCHANGED pc
           ELSE /\ pc' = [pc EXCEPT ![d] =
                       [Ready EXCEPT !.op = "attach_volume", !.at = "request",
                                     !.id = blockdevice_id, !.arg = attach_to,
                                     !.unattached_volume = unattached_volume.value]]
                /\ result' = NoResult
    /\ UNCHANGED <<protocol, volumes>>

\* attach_volume up to the request to Nova: the volume is looked up among this
\* cluster's volumes and must not be attached.
attach_volume(d, blockdevice_id, attach_to) ==
    /\ Starts(d)
    /\ LET unattached_volume == get_blockdevice_volume(d, blockdevice_id)
       IN  IF unattached_volume.raised # "-"
           THEN /\ result' =
                       Result(d, "attach_volume", blockdevice_id, unattached_volume.raised,
                              NoBlockDeviceVolume, {}, FALSE)
                /\ UNCHANGED pc
           ELSE IF unattached_volume.value.attached_to # None
           THEN /\ result' =
                       Result(d, "attach_volume", blockdevice_id, "AlreadyAttachedVolume",
                              NoBlockDeviceVolume, {}, FALSE)
                /\ UNCHANGED pc
           ELSE /\ pc' = [pc EXCEPT ![d] =
                       [Ready EXCEPT !.op = "attach_volume", !.at = "request",
                                     !.id = blockdevice_id, !.arg = attach_to,
                                     !.unattached_volume = unattached_volume.value]]
                /\ result' = NoResult
    /\ UNCHANGED <<protocol, volumes>>

\* nova_volume_manager.create_server_volume: Nova takes the request for a
\* volume that is available and refuses it for any other; then attach_volume
\* waits for "in-use".
create_server_volume(d) ==
    /\ pc[d].at = "request"
    /\ pc[d].op = "attach_volume"
    /\ IF pc[d].id \in Listed /\ volumes[pc[d].id].status = "available"
       THEN /\ volumes' = [volumes EXCEPT ![pc[d].id] =
                   [@ EXCEPT !.status = "attaching", !.server = pc[d].arg]]
            /\ pc' = [pc EXCEPT ![d] = [@ EXCEPT !.at = "wait", !.arg = "in-use",
                                                 !.unattached_volume =
                                                     [@ EXCEPT !.attached_to = pc[d].arg],
                                                 !.issued = TRUE]]
            /\ result' = NoResult
       ELSE /\ result' =
                   Result(d, "attach_volume", pc[d].id, "NovaError", NoBlockDeviceVolume, {}, TRUE)
            /\ pc' = [pc EXCEPT ![d] = Ready]
            /\ UNCHANGED volumes
    /\ UNCHANGED <<protocol, calls>>

\* detach_volume up to the request to Nova: nova_volume_manager.get.
detach_volume(d, blockdevice_id) ==
    /\ Starts(d)
    /\ IF blockdevice_id \notin Listed
       THEN /\ result' =
                   Result(d, "detach_volume", blockdevice_id, "UnknownVolume", NoBlockDeviceVolume, {}, FALSE)
            /\ UNCHANGED pc
       ELSE /\ pc' = [pc EXCEPT ![d] =
                   [Ready EXCEPT !.op = "detach_volume", !.at = "request",
                                 !.id = blockdevice_id, !.arg = compute_instance_id(d)]]
            /\ result' = NoResult
    /\ UNCHANGED <<protocol, volumes>>

\* nova_volume_manager.delete_server_volume(our_id, blockdevice_id): NovaNotFound
\* unless the volume is attached to this server; then detach_volume waits for
\* "available".
delete_server_volume(d) ==
    /\ pc[d].at = "request"
    /\ pc[d].op = "detach_volume"
    /\ IF /\ pc[d].id \in Listed
          /\ volumes[pc[d].id].status = "in-use"
          /\ volumes[pc[d].id].server = pc[d].arg
       THEN /\ volumes' = [volumes EXCEPT ![pc[d].id] = [@ EXCEPT !.status = "detaching"]]
            /\ pc' = [pc EXCEPT ![d] = [@ EXCEPT !.at = "wait", !.arg = "available",
                                                 !.issued = TRUE]]
            /\ result' = NoResult
       ELSE /\ result' =
                   Result(d, "detach_volume", pc[d].id, "UnattachedVolume", NoBlockDeviceVolume, {}, TRUE)
            /\ pc' = [pc EXCEPT ![d] = Ready]
            /\ UNCHANGED volumes
    /\ UNCHANGED <<protocol, calls>>

\* destroy_volume taking a volume that is not there as destroyed: CinderNotFound
\* is passed over and the call returns.
destroy_volume_ignores_missing(d, blockdevice_id) ==
    /\ Starts(d)
    /\ IF blockdevice_id \notin Listed
       THEN /\ result' =
                   Result(d, "destroy_volume", blockdevice_id, "-", NoBlockDeviceVolume, {}, TRUE)
            /\ UNCHANGED <<pc, volumes>>
       ELSE IF volumes[blockdevice_id].status # "available"
       THEN /\ result' =
                   Result(d, "destroy_volume", blockdevice_id, "CinderError", NoBlockDeviceVolume, {}, TRUE)
            /\ UNCHANGED <<pc, volumes>>
       ELSE /\ volumes' = [volumes EXCEPT ![blockdevice_id] = [@ EXCEPT !.status = "deleting"]]
            /\ pc' = [pc EXCEPT ![d] =
                   [Ready EXCEPT !.op = "destroy_volume", !.at = "loop",
                                 !.id = blockdevice_id, !.issued = TRUE]]
            /\ result' = NoResult
    /\ UNCHANGED protocol

\* destroy_volume up to its loop: cinder_volume_manager.delete.  Cinder deletes
\* a volume that is available and refuses one that is in any other state.
destroy_volume(d, blockdevice_id) ==
    /\ Starts(d)
    /\ IF blockdevice_id \notin Listed
       THEN /\ result' =
                   Result(d, "destroy_volume", blockdevice_id, "UnknownVolume", NoBlockDeviceVolume, {}, TRUE)
            /\ UNCHANGED <<pc, volumes>>
       ELSE IF volumes[blockdevice_id].status # "available"
       THEN /\ result' =
                   Result(d, "destroy_volume", blockdevice_id, "CinderError", NoBlockDeviceVolume, {}, TRUE)
            /\ UNCHANGED <<pc, volumes>>
       ELSE /\ volumes' = [volumes EXCEPT ![blockdevice_id] = [@ EXCEPT !.status = "deleting"]]
            /\ pc' = [pc EXCEPT ![d] =
                   [Ready EXCEPT !.op = "destroy_volume", !.at = "loop",
                                 !.id = blockdevice_id, !.issued = TRUE]]
            /\ result' = NoResult
    /\ UNCHANGED protocol

\* destroy_volume returning as soon as the delete has been accepted.
destroy_volume_returns_at_once(d) ==
    /\ pc[d].at = "loop"
    /\ result' =
           Result(d, "destroy_volume", pc[d].id, "-", NoBlockDeviceVolume, {}, TRUE)
    /\ pc' = [pc EXCEPT ![d] = Ready]
    /\ UNCHANGED <<protocol, volumes, calls>>

\* The loop of destroy_volume, the pass in which cinder_volume_manager.get
\* raises CinderNotFound: break.
destroy_volume_returns(d) ==
    /\ pc[d].at = "loop"
    /\ pc[d].id \notin Listed
    /\ result' =
           Result(d, "destroy_volume", pc[d].id, "-", NoBlockDeviceVolume, {}, TRUE)
    /\ pc' = [pc EXCEPT ![d] = Ready]
    /\ UNCHANGED <<protocol, volumes, calls>>

\* The ids the callers pass: those Cinder has given, and one it has not.
Asked == {id \in VolIds : volumes[id].status # "none" \/ id = NextId}

NextCinder ==
    \/ \E id \in VolIds : BackendSettles(id)
    \/ \E d \in Drivers, r \in Requests : create_volume(d, r[1], r[2])
    \/ \E d \in Drivers : wait_for_volume(d)
    \/ \E d \in Drivers : wait_for_volume_times_out(d)
    \/ \E d \in Drivers : ListVolumes(d)
    \/ \E d \in Drivers, id \in Asked, s \in Servers : attach_volume(d, id, s)
    \/ \E d \in Drivers : create_server_volume(d)
    \/ \E d \in Drivers, id \in Asked : detach_volume(d, id)
    \/ \E d \in Drivers : delete_server_volume(d)
    \/ \E d \in Drivers, id \in Asked : destroy_volume(d, id)
    \/ \E d \in Drivers : destroy_volume_returns(d)
    \/ \E d \in Drivers, id \in Asked : GetDevicePath(d, id)

\* The drivers and the backend alone.
InitCinder ==
    /\ InitProtocol(MaxOps)
    /\ volumes \in StartVolumes
    /\ InitDrivers
    /\ InitZFS
    /\ InitLocal

SpecCinder == InitCinder /\ [][NextCinder]_vars

\* The three commands between the agents and the control service, the
\* connections staying up.
NextCommands ==
    \/ \E c \in ConnIds, a \in Agents : ConnectionMade(c, a)
    \/ \E d \in Deployments : Save(d)
    \/ \E c \in ConnIds : AgentAsksVersion(c)
    \/ \E c \in ConnIds : VersionReceived(c)
    \/ \E c \in ConnIds, ch \in ChangeLists : AgentSendsNodeState(c, ch)
    \/ \E c \in ConnIds : NodeStateReceived(c)
    \/ \E c \in ConnIds : ClusterStatusReceived(c)

SpecCommands == Init /\ [][NextCommands]_vars

\* ------------------------------------------------------- ZFSSnapshots

\* What the steps of zfs and of its callers leave alone.
beyond == <<listening, connections, configuration, cluster_state, srv, agt, owner,
            toAgent, toServer, nrecv, cfgAtConnect, cfgAtLoss, agentN, lastOn, maxOn,
            lastBy, maxBy, lastArrived, ops, budget, event, context, sends, wire,
            volumes, pc, result, calls, local>>

\* The filesystems of the pool: one and a filesystem under it.
Pools == {"hpool/myfs", "hpool/myfs/child"}
Filesystem(pool) == [pool |-> pool]
\* What "zfs list -r pool" goes through: the filesystem and those under it.
Under(pool) == IF pool = "hpool/myfs" THEN Pools ELSE {pool}

\* SnapshotName: a timestamp and the name of a node.  As bytes it is the two
\* joined; bytes that are not two parts do not decode.
Timestamps == 1..MaxStamp
SnapshotName(timestamp, node) == [timestamp |-> timestamp, node |-> node]
SnapshotNames == {SnapshotName(t, 1) : t \in Timestamps}
toBytes(name) == <<name.timestamp, name.node>>
fromBytes(bytes) ==
    IF Len(bytes) = 2 THEN Returned(SnapshotName(bytes[1], bytes[2]))
    ELSE Raised("ValueError")
\* The names other users of the pool give to their snapshots.
OtherNames == {<<MaxStamp>>}

\* The name zfs gives to a snapshot, "pool@name", and all there can be.
Line(pool, name) == [pool |-> pool, name |-> name]
Lines == {Line(p, n) : p \in Pools, n \in {toBytes(x) : x \in SnapshotNames} \cup OtherNames}

\* The order of "-s name": the order of the bytes of "pool@name", in which "/"
\* comes before "@" and a name before the names it begins.
BytesBefore(a, b) ==
    \E i \in 1..Len(b) :
        /\ \A j \in 1..(i - 1) : j <= Len(a) /\ a[j] = b[j]
        /\ (i > Len(a) \/ a[i] < b[i])
NameBefore(x, y) ==
    IF x.pool # y.pool THEN x.pool = "hpool/myfs/child" ELSE BytesBefore(x.name, y.name)
RECURSIVE SortedByName(_)
SortedByName(S) ==
    IF S = {} THEN <<>>
    ELSE LET first == CHOOSE x \in S : \A y \in S \ {x} : NameBefore(x, y)
         IN  <<first>> \o SortedByName(S \ {first})

\* The output of "zfs list -H -r -t snapshot -o name -s name pool".
ZfsList(pool) == SortedByName({x \in snapshots : x.pool \in Under(pool)})

\* The reasons a process ends with, as connectionLost is given them: a clean
\* exit comes as ConnectionDone, any other as ProcessTerminated.
ConnectionDone == "ConnectionDone"
ProcessTerminated(code) ==
    CASE code = 1 -> "ProcessTerminated(1)"
      [] code = 2 -> "ProcessTerminated(2)"
      [] OTHER -> "ProcessTerminated(3)"
exitCode(reason) ==
    CASE reason = "ProcessTerminated(1)" -> 1
      [] reason = "ProcessTerminated(2)" -> 2
      [] reason = "ProcessTerminated(3)" -> 3
      [] OTHER -> 0
Reasons == {ConnectionDone} \cup {ProcessTerminated(code) : code \in {1, 2, 3}}

\* zfsCommand: the zfs process is started with an _AccumulatingProtocol.
zfsCommand(call, pool, name) ==
    /\ process.state = "none"
    /\ process' = [NoProcess EXCEPT !.state = "running", !.call = call,
                                    !.filesystem = pool, !.name = name]
    /\ fired' = NotFired

\* ZFSSnapshots.create: zfs snapshot pool@name.
create(filesystem, name) ==
    /\ zfsCommand("create", filesystem.pool, toBytes(name))
    /\ UNCHANGED <<snapshots, beyond>>

\* ZFSSnapshots.list: zfs list of the snapshots of pool and under.
list(filesystem) ==
    /\ zfsCommand("list", filesystem.pool, <<>>)
    /\ UNCHANGED <<snapshots, beyond>>

\* The zfs process does its work and ends.  A snapshot that exists cannot be
\* taken again; a command may fail for reasons of its own, and then it has
\* changed nothing.
ZfsRuns(reason) ==
    /\ process.state = "running"
    /\ LET line == Line(process.filesystem, process.name)
       IN  IF process.call = "create" /\ reason = ConnectionDone
           THEN /\ line \notin snapshots
                /\ snapshots' = snapshots \cup {line}
           ELSE UNCHANGED snapshots
    /\ process' = [process EXCEPT
           !.state = "exited",
           !.reason = reason,
           !.out = IF process.call = "list" /\ reason = ConnectionDone
                   THEN ZfsList(process.filesystem) ELSE <<>>]
    /\ UNCHANGED <<fired, beyond>>

\* Another user of the pool, or of the filesystem under ours, takes a snapshot.
OtherSnapshot(line) ==
    /\ line \notin snapshots
    /\ snapshots' = snapshots \cup {line}
    /\ UNCHANGED <<process, fired, beyond>>

\* _AccumulatingProtocol.dataReceived: some of the output arrives.
dataReceived(n) ==
    /\ process.state = "exited"
    /\ n \in 1..Len(process.out)
    /\ process' = [process EXCEPT !._data = @ \o SubSeq(process.out, 1, n),
                                  !.out = SubSeq(@, n + 1, Len(@))]
    /\ UNCHANGED <<snapshots, fired, beyond>>

\* parseSnapshots of ZFSSnapshots.list keeping the lines of every filesystem.
RECURSIVE parseSnapshots_of_any_pool(_, _)
parseSnapshots_of_any_pool(filesystem, data) ==
    IF data = <<>> THEN <<>>
    ELSE LET line == Head(data)
             decoded == fromBytes(line.name)
         IN  (IF decoded.raised = "-" THEN <<decoded.value>> ELSE <<>>)
                 \o parseSnapshots_of_any_pool(filesystem, Tail(data))

\* parseSnapshots of ZFSSnapshots.list: the lines are split at the "@"; those
\* of this pool whose name decodes give the result, in their order.
RECURSIVE parseSnapshots(_, _)
parseSnapshots(filesystem, data) ==
    IF data = <<>> THEN <<>>
    ELSE LET line == Head(data)
             decoded == fromBytes(line.name)
         IN  (IF line.pool = filesystem.pool /\ decoded.raised = "-"
              THEN <<decoded.value>> ELSE <<>>)
                 \o parseSnapshots(filesystem, Tail(data))

\* _result as it would fire if create had added its callback for failures too.
Fires_create_hides_failure(reason) ==
    IF process.call = "list"
    THEN IF reason = ConnectionDone
         THEN Returned(parseSnapshots(Filesystem(process.filesystem), process._data))
         ELSE Raised("CommandFailed")
    ELSE Returned(<<>>)

\* connectionLost with one errback for every exit that is not clean.
Fires_CommandFailed_for_any_exit(reason) ==
    IF reason = ConnectionDone
    THEN IF process.call = "list"
         THEN Returned(parseSnapshots(Filesystem(process.filesystem), process._data))
         ELSE Returned(<<>>)
    ELSE Raised("CommandFailed")

\* What _result fires with, after the callback that create or list added.
Fires(reason) ==
    IF reason = ConnectionDone
    THEN IF process.call = "list"
         THEN Returned(parseSnapshots(Filesystem(process.filesystem), process._data))
         ELSE Returned(<<>>)
    ELSE IF exitCode(reason) = 1 THEN Raised("CommandFailed")
    ELSE IF exitCode(reason) = 2 THEN Raised("BadArguments")
    ELSE Raised(reason)

\* _AccumulatingProtocol.connectionLost, once the output has all arrived.
connectionLost ==
    /\ process.state = "exited"
    /\ process.out = <<>>
    /\ fired' = [call |-> process.call, filesystem |-> process.filesystem,
                 name |-> process.name, _data |-> process._data,
                 raised |-> Fires(process.reason).raised,
                 value |-> Fires(process.reason).value,
                 times |-> fired.times + 1]
    /\ process' = NoProcess
    /\ UNCHANGED <<snapshots, beyond>>

NextZFS ==
    \/ \E p \in Pools, name \in SnapshotNames : create(Filesystem(p), name)
    \/ \E p \in Pools : list(Filesystem(p))
    \/ \E reason \in Reasons : ZfsRuns(reason)
    \/ \E line \in Lines : OtherSnapshot(line)
    \/ \E n \in 1..Cardinality(Lines) : dataReceived(n)
    \/ connectionLost

SpecZFS == Init /\ [][NextZFS]_vars

\* ---------------------------------------------- moving a dataset

\* What the steps of the agents leave alone, the nodes apart.
outside == <<wire, volumes, pc, result, calls, snapshots, process, fired>>

\* The agents of the two nodes of the cluster, and the connection each opens.
AgentOf(n) == IF n = "n1" THEN 1 ELSE 2
NodeOf(c) == IF c = 1 THEN "n1" ELSE "n2"

\* The node the Deployment gives as the primary of the dataset.
primary(deployment) == IF deployment = "d0" THEN "n1" ELSE "n2"
\* What the NodeState of a node says of the dataset: it is a primary
\* manifestation of the node, or the node has no manifestation of it.
IsPrimary == "v1"
NoManifestation == "v2"
\* What the agent of node n finds when it looks at its node.
Observed(n) == IF local[n].primary THEN IsPrimary ELSE NoManifestation

\* Cluster.current_nodes: GET /state/nodes, the nodes the cluster state knows.
current_nodes == {n \in Nodes : cluster_state.nodes[n] # NoVal}
\* nodes_available of get_test_cluster: the test starts once node_count nodes
\* are in the cluster state.
nodes_available(node_count) == Cardinality(current_nodes) >= node_count

\* Cluster.datasets_state: GET /state/datasets, one entry for every node that
\* lists the dataset as a primary.
datasets_state == {n \in Nodes : cluster_state.nodes[n] = IsPrimary}

\* created of Cluster.wait_for_dataset: the dataset with the expected primary
\* is in the state listing.
wait_for_dataset(node) == node \in datasets_state

\* configuration_matches_state of assert_expected_deployment: what the cluster
\* reports is what was deployed, node by node.
configuration_matches_state ==
    \A n \in Nodes :
        cluster_state.nodes[n] =
            IF primary(configuration) = n THEN IsPrimary ELSE NoManifestation

\* Cluster.update_dataset(dataset_id, {"primary": node}): the POST ends in
\* save() of the Deployment with the dataset's primary on node.
update_dataset(node) ==
    /\ nodes_available(Cardinality(Nodes))
    /\ \E deployment \in Deployments :
          /\ primary(deployment) = node
          /\ Save(deployment)

\* _AgentLocator.cluster_updated, with the agent keeping what it was told: the
\* convergence loop works from the last (configuration, state) delivered.
cluster_updated(c) ==
    /\ agt[c] = "made"
    /\ toAgent[c] # <<>>
    /\ nrecv' = [nrecv EXCEPT ![c] = @ + 1]
    /\ toAgent' = [toAgent EXCEPT ![c] = Tail(@)]
    /\ local' = [local EXCEPT ![NodeOf(c)].target = Payload(Head(toAgent[c]))]
    /\ event' = Event("cluster_updated", c, <<>>, Head(toAgent[c]))
    /\ context' = Head(toAgent[c]).eliot_context
    /\ sends' = NoSends
    /\ UNCHANGED <<listening, service, handled, srv, agt, owner, toServer,
                   cfgAtConnect, cfgAtLoss, agentN, ops, budget, outside>>

\* What a step of the convergence loop on a node leaves alone.
AgentStep ==
    /\ event' = Quiet
    /\ context' = NoContext
    /\ sends' = NoSends
    /\ UNCHANGED <<listening, service, handled, srv, agt, owner, toAgent, nrecv,
                   cfgAtConnect, cfgAtLoss, ops, budget, outside>>

\* Handoff primary: the node holds the primary and the configuration the agent
\* was last told puts it elsewhere; the node gives it up.
Handoff(n) ==
    /\ local[n].target # NoTarget
    /\ local[n].primary
    /\ primary(local[n].target[1]) # n
    /\ local' = [local EXCEPT ![n].primary = FALSE]
    /\ UNCHANGED <<toServer, agentN>>
    /\ AgentStep

\* Receive primary: the configuration the agent was last told puts the primary
\* here; the node takes over once no other node holds it.
Receive(n) ==
    /\ local[n].target # NoTarget
    /\ ~local[n].primary
    /\ primary(local[n].target[1]) = n
    /\ \A m \in Nodes \ {n} : ~local[m].primary
    /\ local' = [local EXCEPT ![n].primary = TRUE]
    /\ UNCHANGED <<toServer, agentN>>
    /\ AgentStep

\* The agent of node n reports what it finds on its node when that is not what
\* it reported last: callRemote(NodeStateCommand, state_changes=[NodeState]).
AgentReports(n) ==
    LET c == AgentOf(n)
    IN  /\ agt[c] = "made"
        /\ srv[c] = "made"
        /\ Observed(n) # local[n].reported
        /\ agentN' = [agentN EXCEPT ![owner[c]] = @ + 1]
        /\ toServer' = [toServer EXCEPT ![c] =
               Append(@, ToServer("NodeStateCommand", <<NodeState(n, Observed(n))>>,
                                  AgentAction(owner[c]), owner[c],
                                  agentN[owner[c]] + 1))]
        /\ local' = [local EXCEPT ![n].reported = Observed(n)]
        /\ AgentStep

\* The acceptance cluster: two agents connect and stay connected, the test moves
\* the dataset between the nodes, the agents converge and report.
NextMove ==
    \/ \E n \in Nodes : ConnectionMade(AgentOf(n), AgentOf(n))
    \/ \E n \in Nodes : update_dataset(n)
    \/ \E n \in Nodes : cluster_updated(AgentOf(n))
    \/ \E n \in Nodes : Handoff(n)
    \/ \E n \in Nodes : Receive(n)
    \/ \E n \in Nodes : AgentReports(n)
    \/ \E n \in Nodes : NodeStateReceived(AgentOf(n))

\* Everything but the test's own requests goes on: the reactors deliver what is
\* in flight and the convergence loops keep running.
FairMove ==
    \A n \in Nodes :
        /\ WF_vars(ConnectionMade(AgentOf(n), AgentOf(n)))
        /\ WF_vars(cluster_updated(AgentOf(n)))
        /\ WF_vars(Handoff(n))
        /\ WF_vars(Receive(n))
        /\ WF_vars(AgentReports(n))
        /\ WF_vars(NodeStateReceived(AgentOf(n)))

\* The inputs are the two connections and the moves.
SpecMove == InitWith(MaxMoves + 2) /\ [][NextMove]_vars /\ FairMove

\* ----------------------------------------------------------------- claims

\* The NodeState changes of a list are in the DeploymentState st.
Contains(st, changes) ==
    /\ \A n \in Nodes : LastFor(n, changes) # NoVal => st.nodes[n] = LastFor(n, changes)
    /\ \A i \in 1..Len(changes) :
          (changes[i].type = "NonManifestDatasets"
           /\ \A j \in (i + 1)..Len(changes) : changes[j].type = "NodeState")
          => st.nonmanifest = changes[i].val

\* C1: when the control service has handled a NodeStateCommand, the changes are
\* in the cluster state and a ClusterStatusCommand has been sent to every
\* connection of the connection set, the sender's included, with a state that
\* holds the changes.
C1_NodeStateAppliedThenBroadcast ==
    event.kind = "node_changed" =>
        /\ Contains(cluster_state, event.changes)
        /\ sends.recipients = connections
        /\ event.conn \in sends.recipients
        /\ \A c \in sends.recipients :
              /\ Contains(sends.msgs[c].state, event.changes)
              /\ sends.msgs[c].state = cluster_state

C1_Witness ==
    /\ event.kind = "node_changed"
    /\ Cardinality(sends.recipients) >= 2
    /\ event.changes = <<NodeState("n1", "v2"), NonManifestDatasets("v1")>>

\* C2: when the configuration service has called the change callback, a
\* ClusterStatusCommand with the saved Deployment has been sent to every
\* connection that is in the connection set now, however long after the
\* registration of the callback it was made.
C2_ConfigurationChangeBroadcast ==
    event.kind = "configuration_changed" =>
        /\ configuration = event.msg.configuration
        /\ sends.recipients = connections
        /\ \A c \in sends.recipients :
              sends.msgs[c].configuration = event.msg.configuration

C2_Witness ==
    /\ event.kind = "configuration_changed"
    /\ event.msg.configuration = "d1"
    /\ Cardinality(sends.recipients) >= 2

\* C3: a step in which a connection is made adds it to the connection set, sends
\* one ClusterStatusCommand with the current configuration and state to it, and
\* changes nothing of what is in flight to any other connection.
C3_ConnectTellsOnlyNewcomer ==
    [][event'.kind = "connected" =>
          /\ connections' = connections \cup {event'.conn}
          /\ sends'.recipients = {event'.conn}
          /\ Payload(sends'.msgs[event'.conn]) = <<configuration', cluster_state'>>
          /\ toAgent'[event'.conn] = <<sends'.msgs[event'.conn]>>
          /\ \A c \in ConnIds \ {event'.conn} : toAgent'[c] = toAgent[c]]_vars

C3_Witness ==
    /\ event.kind = "connected"
    /\ \E c \in connections \ {event.conn} : agt[c] = "made" /\ srv[c] = "made"
    /\ cluster_state # EmptyDeploymentState

\* C4: all the ClusterStatusCommands of one broadcast carry the same
\* (configuration, state), and it is what the two stores hold when the handler
\* ends.
C4_OneSnapshotPerBroadcast ==
    \A c \in sends.recipients :
        /\ Payload(sends.msgs[c]) = <<configuration, as_deployment(cluster_state)>>
        /\ \A d \in sends.recipients : Payload(sends.msgs[c]) = Payload(sends.msgs[d])

C4_Witness ==
    /\ Cardinality(sends.recipients) >= 2
    /\ event.kind = "node_changed"
    /\ cluster_state.nodes["n2"] = "v1"

\* C5: cluster_updated is called with the ClusterStatusCommands of a connection
\* in the order in which they were written to it: the k-th call gets the k-th
\* command, and those still in flight follow in order.
C5_ClusterStatusInOrder ==
    /\ event.kind = "cluster_updated" => event.msg.seq = nrecv[event.conn]
    /\ \A c \in ConnIds : \A i \in 1..Len(toAgent[c]) : toAgent[c][i].seq = nrecv[c] + i

C5_Witness ==
    /\ event.kind = "cluster_updated"
    /\ event.msg.seq = 2
    /\ toAgent[event.conn] # <<>>
    /\ Payload(event.msg) # Payload(toAgent[event.conn][1])

\* C6 as claimed: the NodeStateCommands of one agent are handled in the order in
\* which the agent sent them, whatever connections it sent them on.
C6_InOrderPerAgent ==
    \A a \in Agents : lastBy[a] = maxBy[a]

\* C6 as amended: the NodeStateCommands of one connection are handled in the
\* order in which they were sent on it, and those still in flight on it were
\* sent after every one handled and are in the order sent.
C6_InOrderPerConnection ==
    \A c \in ConnIds :
        /\ lastOn[c] = maxOn[c]
        /\ \A i \in 1..Len(toServer[c]) :
              /\ toServer[c][i].n > maxOn[c]
              /\ \A j \in 1..(i - 1) : toServer[c][j].n < toServer[c][i].n

C6_Witness ==
    /\ event.kind = "node_changed"
    /\ event.conn = 1
    /\ lastOn[1] = 2
    /\ cluster_state.nodes["n1"] = "v1"
    /\ cluster_state.nonmanifest = "v1"
    /\ toServer[1] # <<>>

C8_SendFailureDropped ==
    [][/\ sends'.failed # {} =>
            /\ event'.kind \in {"configuration_changed", "node_changed"}
            /\ connections' = connections
            /\ sends'.failed \subseteq connections'
            /\ \A c \in sends'.recipients \ sends'.failed :
                  agt[c] = "made" => toAgent'[c] = Append(toAgent[c], sends'.msgs[c])
            /\ \A c \in sends'.failed : toAgent'[c] = toAgent[c]
            /\ event'.kind = "configuration_changed" =>
                  /\ cluster_state' = cluster_state
                  /\ configuration' = event'.msg.configuration
            /\ event'.kind = "node_changed" =>
                  /\ configuration' = configuration
                  /\ cluster_state' = apply_changes(cluster_state, event'.changes)
       /\ \A c \in connections \ connections' :
            event'.kind = "disconnected" /\ event'.conn = c]_vars

C8_Witness ==
    /\ sends.failed # {}
    /\ \E c \in sends.recipients \ sends.failed :
          toAgent[c] # <<>> /\ toAgent[c][Len(toAgent[c])] = sends.msgs[c]
    /\ event.kind = "node_changed"

\* C9: the connection set is the set of the connections made and not yet lost,
\* and no callRemote of a handler goes to a connection that was lost.
C9_ConnectionSetIsLiveConnections ==
    /\ connections = {c \in ConnIds : srv[c] \in {"made", "broken"}}
    /\ \A c \in ConnIds : srv[c] = "lost" => c \notin sends.recipients

C9_Witness ==
    /\ \E c \in ConnIds : srv[c] = "lost"
    /\ sends.recipients # {}
    /\ event.kind \in {"configuration_changed", "node_changed"}

\* C10: the first ClusterStatusCommand an agent gets on a connection carries the
\* configuration that was current when the connection was made.
C10_FirstStatusIsCurrentConfiguration ==
    (event.kind = "cluster_updated" /\ nrecv[event.conn] = 1) =>
        event.msg.configuration = cfgAtConnect[event.conn]

\* The agent of connection 1 lost it under "d0" and is back on connection 2,
\* where the first command carries "d1".
C10_Witness ==
    /\ event.kind = "cluster_updated"
    /\ event.conn = 2
    /\ nrecv[2] = 1
    /\ owner[2] = owner[1]
    /\ cfgAtLoss[1] = "d0"
    /\ event.msg.configuration = "d1"

\* C11: the step that stops the control service ends the listening and closes
\* the transport of every connection of the set, which it leaves as it is; from
\* then on no connection is made, and once every connection made has been lost
\* the set is empty and no handler sends or writes a ClusterStatusCommand.
C11_StopClosesEveryConnection ==
    [][/\ event'.kind = "stopped" =>
             /\ ~listening'
             /\ connections' = connections
             /\ \A c \in connections : srv'[c] \in {"closing", "broken"}
       /\ ~listening =>
             /\ ~listening'
             /\ connections' \subseteq connections
             /\ event'.kind # "connected"
       /\ (~listening' /\ \A c \in ConnIds : srv'[c] \in {"none", "lost"}) =>
             connections' = {}
       /\ (~listening /\ connections = {}) =>
             /\ sends'.recipients = {}
             /\ toAgent' = toAgent]_vars

C11_Witness ==
    /\ ~listening
    /\ connections = {}
    /\ Cardinality({c \in ConnIds : srv[c] = "lost"}) = 2
    /\ event.kind = "configuration_changed"
    /\ sends.recipients = {}

\* C12: a step that handles a NodeStateCommand, a connection made or a
\* connection lost leaves the Deployment of the configuration service as it is,
\* the callback of a configuration change leaves the cluster state as it is,
\* and the Deployment changes in no step but a save.
C12_AgentsNeverEditConfiguration ==
    [][/\ event'.kind \in {"node_changed", "connected", "disconnected"} =>
             configuration' = configuration
       /\ event'.kind = "configuration_changed" => cluster_state' = cluster_state
       /\ configuration' # configuration => event'.kind = "configuration_changed"]_vars

C12_Witness ==
    /\ event.kind = "configuration_changed"
    /\ cluster_state.nodes["n1"] = "v2"
    /\ cluster_state.nonmanifest = "v1"
    /\ \E c \in ConnIds : srv[c] = "lost"

\* C13: the response of VersionCommand is major version 1, and a connection
\* whose agent speaks another major version is refused: it is not in the
\* connection set, no ClusterStatusCommand is sent or delivered on it and no
\* NodeStateCommand of it is handled.
C13_IncompatiblePeerRefused ==
    /\ event.kind = "version" => event.msg.major = 1
    /\ \A c \in ConnIds :
          (owner[c] # 0 /\ AgentMajor(owner[c]) # version.major) =>
              /\ c \notin connections
              /\ c \notin sends.recipients
              /\ toAgent[c] = <<>>
              /\ nrecv[c] = 0
              /\ lastOn[c] = 0

\* C14: every command in flight carries an Eliot context, a handler of a command
\* runs in the context its command carried, and the contexts of the commands of
\* one broadcast differ from connection to connection.
C14_EveryCommandTraced ==
    /\ \A c \in ConnIds :
          /\ \A i \in 1..Len(toServer[c]) : toServer[c][i].eliot_context # NoContext
          /\ \A i \in 1..Len(toAgent[c]) : toAgent[c][i].eliot_context # NoContext
    /\ event.kind \in {"version", "node_changed", "cluster_updated"} =>
          context # NoContext
    /\ event.kind = "cluster_updated" => context = LOG_SEND_TO_AGENT(event.conn)
    /\ event.kind = "node_changed" => context = AgentAction(owner[event.conn])
    /\ \A c, d \in sends.recipients :
          c # d => sends.msgs[c].eliot_context # sends.msgs[d].eliot_context

\* The argument lists of a command whose objects all are of the declared classes.
WellTyped(command, objs) ==
    \A i \in 1..Len(objs) : objs[i].type \in expected_classes(command, i)

\* C15: a command with an argument that is not of a declared class raises a type
\* error when it is encoded and when it is decoded; the responder is called
\* only with a Deployment and a DeploymentState (ClusterStatusCommand) or with
\* NodeState and NonManifestDatasets elements (NodeStateCommand), and a step
\* that rejects a command changes neither the cluster state nor anything else
\* of the control service.
C15_WrongClassRejected ==
    [][/\ wire'.stage = "raised" <=>
             (wire.stage = "idle" /\ wire'.args # <<>>
              /\ ~WellTyped(wire'.command, wire'.args))
       /\ wire'.stage = "raised" => wire'.box = <<>>
       /\ wire'.stage = "rejected" <=>
             (wire.stage = "sent"
              /\ ~WellTyped(wire.command, [i \in 1..Len(wire.box) |-> wire_decode(wire.box[i])]))
       /\ wire'.stage = "handled" =>
             /\ WellTyped(wire'.command, wire'.got)
             /\ event'.kind \in {"node_changed", "cluster_updated"}
             /\ event'.changes = wire'.got
       /\ wire'.stage \in {"raised", "rejected"} =>
             /\ cluster_state' = cluster_state
             /\ configuration' = configuration
             /\ event'.kind \notin {"node_changed", "cluster_updated"}]_vars

C15_Witness ==
    /\ wire.stage = "rejected"
    /\ wire.command = "NodeStateCommand"
    /\ Len(wire.box) = 2
    /\ wire_decode(wire.box[1]).type = "NodeState"
    /\ wire_decode(wire.box[2]).type = "Deployment"
    /\ cluster_state # EmptyDeploymentState

TaggedFor(cid) ==
    {id \in VolIds : /\ volumes[id].status \notin {"none", "deleted"}
                     /\ volumes[id].metadata.cluster = cid}

\* C17: what list_volumes of a driver returns is, id for id, the volumes of the
\* backend whose metadata carries the driver's cluster id: none of another
\* cluster, none without the label, and none of its own is missing.
C17_ListIsOwnCluster ==
    /\ result.op = "list_volumes" =>
          /\ {v.blockdevice_id : v \in result.listed} = TaggedFor(cluster_id(result.by))
          /\ \A v \in result.listed :
                /\ volumes[v.blockdevice_id].metadata.cluster = cluster_id(result.by)
                /\ volumes[v.blockdevice_id].metadata.cluster # None
    /\ \A d \in Drivers :
          {v.blockdevice_id : v \in list_volumes(d)} = TaggedFor(cluster_id(d))

\* Driver 1 lists its cluster's volume; the backend also holds the volume
\* without metadata and one that cluster "B" made in this run.
C17_Witness ==
    /\ result.op = "list_volumes"
    /\ result.by = 1
    /\ {v.blockdevice_id : v \in result.listed} = {2}
    /\ TaggedFor("B") # {}
    /\ TaggedFor(None) # {}

\* C18: what list_volumes returns to one driver is what it returns to every
\* driver object of the same cluster, and a volume create_volume returned, or
\* one that is attached, is listed to every one of them with its dataset_id,
\* size and attached_to.
C18_ListIsStateless ==
    /\ result.op = "list_volumes" =>
          \A e \in Drivers :
              cluster_id(e) = cluster_id(result.by) => list_volumes(e) = result.listed
    /\ (result.op = "create_volume" /\ result.raised = "-") =>
          \A e \in Drivers :
              cluster_id(e) = cluster_id(result.by) => result.value \in list_volumes(e)
    /\ \A d \in Drivers : \A id \in TaggedFor(cluster_id(d)) :
          BlockDeviceVolume(id, volumes[id].size * GiB,
                            IF volumes[id].status \in {"in-use", "detaching"}
                            THEN volumes[id].server ELSE None,
                            volumes[id].metadata.dataset) \in list_volumes(d)

\* Driver 2 lists the volume that driver 1 attached to server "s2" in this run.
C18_Witness ==
    /\ result.op = "list_volumes"
    /\ result.by = 2
    /\ BlockDeviceVolume(2, GiB, "s2", "ds1") \in result.listed

\* C19: the step in which create_volume returns is a pass of wait_for_volume
\* that lists the new volume with status "available"; the BlockDeviceVolume it
\* returns has the dataset_id asked for and no attached_to, and is among what
\* list_volumes of the driver gives in the state it returns in.
C19_CreateReturnsAvailableVolume ==
    [][(result'.op = "create_volume" /\ result'.raised = "-") =>
          /\ pc[result'.by].op = "create_volume"
          /\ result'.id = pc[result'.by].id
          /\ result'.id \in Listed
          /\ volumes[result'.id].status = "available"
          /\ volumes' = volumes
          /\ result'.value.blockdevice_id = result'.id
          /\ result'.value.dataset_id = pc[result'.by].dataset_id
          /\ result'.value.attached_to = None
          /\ \E d \in Drivers : d = result'.by /\ result'.value \in list_volumes(d)']_vars

C19_Witness ==
    /\ result.op = "create_volume"
    /\ result.raised = "-"
    /\ result.by = 3
    /\ result.value.dataset_id = "ds2"
    /\ result.value.size = 2 * GiB

\* C20: attach_volume raises UnknownVolume exactly when the volume is not among
\* what list_volumes gives the driver, and AlreadyAttachedVolume exactly when
\* it is and has an attached_to; in both cases no request has gone to Nova and
\* the backend is as it was.  A call that returns has sent the request and
\* returns in a pass of wait_for_volume that lists the volume "in-use".
C20_AttachChecksThenWaits ==
    [][/\ (result'.op = "attach_volume" /\ result'.raised = "UnknownVolume") =>
             /\ ~result'.issued
             /\ volumes' = volumes
             /\ \A v \in list_volumes(result'.by) : v.blockdevice_id # result'.id
       /\ (result'.op = "attach_volume" /\ result'.raised = "AlreadyAttachedVolume") =>
             /\ ~result'.issued
             /\ volumes' = volumes
             /\ \E v \in list_volumes(result'.by) :
                   v.blockdevice_id = result'.id /\ v.attached_to # None
       /\ \A d \in Drivers :
             (pc[d].at = "idle" /\ pc'[d].op = "attach_volume") =>
                 /\ ~pc'[d].issued
                 /\ volumes' = volumes
                 /\ \E v \in list_volumes(d) :
                       v.blockdevice_id = pc'[d].id /\ v.attached_to = None
       /\ \A d \in Drivers :
             (pc[d].op = "attach_volume" /\ ~pc[d].issued /\ pc'[d].issued) =>
                 /\ volumes[pc[d].id].status = "available"
                 /\ volumes'[pc[d].id].status = "attaching"
                 /\ volumes'[pc[d].id].server = pc[d].arg
       /\ (result'.op = "attach_volume" /\ result'.raised = "-") =>
             /\ result'.issued
             /\ pc[result'.by].issued
             /\ volumes[result'.id].status = "in-use"
             /\ volumes' = volumes]_vars

C20_Witness ==
    /\ result.op = "attach_volume"
    /\ result.raised = "AlreadyAttachedVolume"
    /\ result.by = 2
    /\ volumes[result.id].server = "s2"

\* C21: detach_volume raises UnknownVolume only for a volume the backend does
\* not know and UnattachedVolume only for a volume that has no attachment; for
\* a volume that has one it sends the request and returns in a pass that lists
\* the volume "available", when list_volumes shows no attached_to for it.
C21_DetachUnlessUnattached ==
    [][/\ (result'.op = "detach_volume" /\ result'.raised = "UnknownVolume") =>
             /\ result'.id \notin Listed
             /\ volumes' = volumes
       /\ (result'.op = "detach_volume" /\ result'.raised = "UnattachedVolume") =>
             /\ attachments(volumes[result'.id]) = {}
             /\ volumes' = volumes
       /\ (result'.op = "detach_volume" /\ result'.raised = "-") =>
             /\ pc[result'.by].issued
             /\ volumes[result'.id].status = "available"
             /\ volumes' = volumes
             /\ \A d \in Drivers : \A v \in list_volumes(d) :
                   v.blockdevice_id = result'.id => v.attached_to = None]_vars

\* C22: destroy_volume returns only after it has sent the delete and in a pass
\* of its loop in which the backend does not know the volume any more, so that
\* no list_volumes from then on contains it; for an id the backend does not
\* know it raises UnknownVolume at once, in the step of the call itself.
C22_DestroyReturnsWhenGone ==
    [][/\ \A d \in Drivers :
             (pc[d].at = "idle" /\ pc'[d].op = "destroy_volume") =>
                 /\ volumes[pc'[d].id].status = "available"
                 /\ volumes'[pc'[d].id].status = "deleting"
                 /\ pc'[d].issued
       /\ (result'.op = "destroy_volume" /\ result'.raised = "-") =>
             /\ pc[result'.by].op = "destroy_volume"
             /\ pc[result'.by].issued
             /\ result'.id = pc[result'.by].id
             /\ result'.id \notin Listed
             /\ volumes' = volumes
             /\ \A d \in Drivers : \A v \in list_volumes(d) :
                   v.blockdevice_id # result'.id
       /\ (result'.op = "destroy_volume" /\ result'.raised = "UnknownVolume") =>
             /\ result'.id \notin Listed
             /\ pc[result'.by].at = "idle"
             /\ pc'[result'.by].at = "idle"
             /\ volumes' = volumes
       /\ \A id \in VolIds :
             volumes[id].status = "deleted" =>
                 /\ volumes'[id].status = "deleted"
                 /\ \A d \in Drivers : \A v \in list_volumes(d)' : v.blockdevice_id # id]_vars

\* Driver 2 has destroyed the volume the run started with, which driver 1 of
\* the same cluster had in its list.
C22_Witness ==
    /\ result.op = "destroy_volume"
    /\ result.raised = "-"
    /\ result.by = 2
    /\ result.id = 2
    /\ volumes[2].status = "deleted"
    /\ \A v \in list_volumes(1) : v.blockdevice_id # 2

\* C23: a driver that is inside create_volume, attach_volume, detach_volume or
\* destroy_volume always has a way out of the call: the state it polls for
\* holds and it returns, or it does not hold and the time limit ends the call
\* with an error.  It is never left polling with neither.
C23_EveryOperationCanStop ==
    \A d \in Drivers :
        pc[d].at # "idle" =>
            ENABLED (\/ create_server_volume(d)
                     \/ delete_server_volume(d)
                     \/ wait_for_volume(d)
                     \/ wait_for_volume_times_out(d)
                     \/ destroy_volume_returns(d))

\* C24: a call that ends because its wait timed out raises an error of a class
\* of its own, not the general Exception, and the error says the status that
\* was waited for and the status the backend last showed for the volume.
C24_TimeoutErrorSaysBothStates ==
    [][\A d \in Drivers :
          (pc[d].at = "wait" /\ result'.by = d /\ result'.raised # "-") =>
              /\ result'.raised # "Exception"
              /\ \E i \in DOMAIN result'.args : result'.args[i] = pc[d].arg
              /\ \E i \in DOMAIN result'.args :
                    result'.args[i] = IF pc[d].id \in Listed
                                      THEN volumes[pc[d].id].status ELSE "deleted"]_vars

\* C25: get_device_path raises UnknownVolume exactly for an id the backend
\* does not know, UnattachedVolume exactly for a volume it knows that has no
\* attachment, and otherwise returns the device of the attachment the volume
\* has; asked where attach_volume has just returned it returns a device, and
\* where detach_volume has just returned it raises UnattachedVolume.
C25_DevicePathOfAttachment ==
    /\ result.op = "get_device_path" =>
          /\ result.raised = "UnknownVolume" <=> result.id \notin Listed
          /\ result.raised = "UnattachedVolume" <=>
                 (result.id \in Listed /\ attachments(volumes[result.id]) = {})
          /\ result.raised = "-" <=>
                 (result.id \in Listed /\ attachments(volumes[result.id]) # {})
          /\ result.raised = "-" =>
                 /\ result.value.device_on \in attachments(volumes[result.id])
                 /\ result.value = FilePath(volumes[result.id].server)
    /\ (result.op = "attach_volume" /\ result.raised = "-") =>
          /\ get_device_path(result.id).raised = "-"
          /\ get_device_path(result.id).value = FilePath(volumes[result.id].server)
    /\ (result.op = "detach_volume" /\ result.raised = "-") =>
          get_device_path(result.id).raised = "UnattachedVolume"

\* Driver 2 is given the device of a volume that was attached in this run.
C25_Witness ==
    /\ result.op = "get_device_path"
    /\ result.by = 2
    /\ result.raised = "-"
    /\ result.id = 2
    /\ result.value = FilePath("s2")

\* C26: the size in the BlockDeviceVolume create_volume returns is the size
\* the backend shows for the volume, in bytes and therefore whole GiB, and it
\* is not less than the size the call asked for.
C26_CreatedSizeCoversRequest ==
    (result.op = "create_volume" /\ result.raised = "-") =>
        /\ result.value.size = volumes[result.id].size * GiB
        /\ result.value.size % GiB = 0
        /\ \A r \in Requests :
              r[1] = result.value.dataset_id => result.value.size >= r[2]

\* The lines of data that name a snapshot of pool whose name decodes.
OwnDecodable(pool, data) ==
    {i \in 1..Len(data) : data[i].pool = pool /\ fromBytes(data[i].name).raised = "-"}

\* C27: when the zfs process of list ends cleanly, list fires with a result and
\* not an error, whatever lines the output has; the result has one SnapshotName
\* for each line of the output that names a snapshot of this filesystem with a
\* name that decodes, and no other, in the order of the lines.
C27_ListIsOwnDecodableInOrder ==
    [][(/\ process.call = "list"
        /\ process.state = "exited"
        /\ process'.state = "none"
        /\ process.reason = ConnectionDone) =>
           LET data == process._data
               own == OwnDecodable(process.filesystem, data)
           IN  /\ fired'.raised = "-"
               /\ fired'._data = data
               /\ Len(fired'.value) = Cardinality(own)
               /\ \A i \in own :
                     LET k == Cardinality({j \in own : j <= i})
                     IN  /\ toBytes(fired'.value[k]) = data[i].name
                         /\ fired'.value[k] \in SnapshotNames]_vars

\* list on "hpool/myfs" has fired with its two snapshots, in the order of the
\* output, which also had a snapshot of the filesystem under it and a snapshot
\* with a name of someone else's.
C27_Witness ==
    /\ fired.call = "list"
    /\ fired.filesystem = "hpool/myfs"
    /\ fired.raised = "-"
    /\ fired.value = <<SnapshotName(1, 1), SnapshotName(2, 1)>>
    /\ \E i \in 1..Len(fired._data) : fired._data[i].pool = "hpool/myfs/child"
    /\ \E i \in 1..Len(fired._data) :
          fired._data[i] = Line("hpool/myfs", <<MaxStamp>>)

\* The SnapshotNames of the snapshots the filesystem has in the pool.
OwnSnapshots(pool) ==
    {fromBytes(x.name).value :
        x \in {y \in snapshots : y.pool = pool /\ fromBytes(y.name).raised = "-"}}

\* C28: create fires with success exactly when its zfs process ended cleanly;
\* that process, ending cleanly, adds the name to the snapshots of the
\* filesystem and takes none away, and ending otherwise leaves them as they
\* were.  Where create has fired with success the filesystem has the name; a
\* list that runs gives the names the filesystem has then, and no step takes
\* a name away from a filesystem.
C28_CreateOnlyAdds ==
    [][/\ (process.call = "create" /\ process.state = "running"
                                   /\ process'.state = "exited") =>
             IF process'.reason = ConnectionDone
             THEN /\ fromBytes(process.name).value \notin OwnSnapshots(process.filesystem)
                  /\ OwnSnapshots(process.filesystem)' =
                         OwnSnapshots(process.filesystem) \cup {fromBytes(process.name).value}
             ELSE \A p \in Pools : OwnSnapshots(p)' = OwnSnapshots(p)
       /\ (process.call = "create" /\ process.state = "exited"
                                   /\ process'.state = "none") =>
             /\ fired'.raised = "-" <=> process.reason = ConnectionDone
             /\ fired'.raised = "-" =>
                   fromBytes(process.name).value \in OwnSnapshots(process.filesystem)
             /\ snapshots' = snapshots
       /\ (process.call = "list" /\ process.state = "running"
                                 /\ process'.state = "exited"
                                 /\ process'.reason = ConnectionDone) =>
             LET names == parseSnapshots(Filesystem(process.filesystem), process'.out)
             IN  {names[i] : i \in 1..Len(names)} = OwnSnapshots(process.filesystem)
       /\ \A p \in Pools : OwnSnapshots(p) \subseteq OwnSnapshots(p)']_vars

\* create of a second name has fired with success on "hpool/myfs"; list gives
\* both names.
C28_Witness ==
    /\ fired.call = "create"
    /\ fired.filesystem = "hpool/myfs"
    /\ fired.name = toBytes(SnapshotName(2, 1))
    /\ fired.raised = "-"
    /\ OwnSnapshots("hpool/myfs") = {SnapshotName(1, 1), SnapshotName(2, 1)}
    /\ Line("hpool/myfs", <<MaxStamp>>) \in snapshots

\* C29: in every observed cluster state at most one node lists the dataset as
\* a primary, also while the dataset is moved from one node to the other.
C29_OnePrimaryObserved == Cardinality(datasets_state) <= 1

C32_OneStatusPerRecipientPerEvent ==
    [][event'.kind \in {"connected", "configuration_changed", "node_changed"} =>
         LET recipients == IF event'.kind = "connected" THEN {event'.conn}
                           ELSE connections'
         IN  /\ sends'.recipients = recipients
             /\ DOMAIN sends'.msgs = recipients
             /\ \A c \in ConnIds :
                   toAgent'[c] =
                       IF c \in recipients /\ srv'[c] = "made" /\ agt'[c] = "made"
                       THEN Append(toAgent[c], sends'.msgs[c])
                       ELSE toAgent[c]]_vars

\* node_changed has just written to a connection the pair that the command
\* before it on that connection carries: the report changed nothing.
C32_Witness ==
    /\ event.kind = "node_changed"
    /\ \E c \in connections :
          /\ Len(toAgent[c]) >= 2
          /\ toAgent[c][Len(toAgent[c])] = sends.msgs[c]
          /\ Payload(toAgent[c][Len(toAgent[c]) - 1]) = Payload(sends.msgs[c])
          /\ toAgent[c][Len(toAgent[c]) - 1].seq + 1 = sends.msgs[c].seq

\* C33: on each connection the agent is called connected first, cluster_updated
\* only between connected and disconnected, and disconnected at most once and
\* only after connected; nothing is called on the connection after that.
C33_AgentCallbacksInOrder ==
    [][/\ \A c \in ConnIds :
             agt'[c] # agt[c] =>
                 \/ /\ agt[c] = "none"
                    /\ agt'[c] = "made"
                    /\ event'.kind = "connected"
                    /\ event'.conn = c
                 \/ /\ agt[c] = "made"
                    /\ agt'[c] = "lost"
                    /\ event'.kind # "cluster_updated"
       /\ event'.kind = "cluster_updated" =>
             /\ agt[event'.conn] = "made"
             /\ agt'[event'.conn] = "made"]_vars

\* An agent that was called disconnected on one connection is called
\* cluster_updated on the connection it made next.
C33_Witness ==
    /\ event.kind = "cluster_updated"
    /\ agt[event.conn] = "made"
    /\ \E b \in ConnIds :
          /\ b < event.conn
          /\ owner[b] = owner[event.conn]
          /\ agt[b] = "lost"

\* C34: wait_for_volume ends in a pass that has listed the backend.  It returns
\* only when that listing holds the expected id with the expected status, and
\* what it returns is the listed volume; it raises only when that listing does
\* not, so also with no time at all a volume that is already as expected is
\* returned.
C34_WaitReturnsListedOrRaises ==
    [][\A d \in Drivers :
          (pc[d].at = "wait" /\ pc'[d].at # "wait") =>
              LET shown == /\ pc[d].id \in Listed
                           /\ volumes[pc[d].id].status = pc[d].arg
              IN  /\ result'.by = d
                  /\ result'.id = pc[d].id
                  /\ result'.raised \in {"-", "Exception"}
                  /\ result'.raised = "-" <=> shown
                  /\ (result'.raised = "-" /\ pc[d].op = "create_volume") =>
                        result'.value =
                            blockdevicevolume_from_cinder_volume(pc[d].id,
                                                                 volumes[pc[d].id])
                  /\ volumes' = volumes]_vars

\* The wait of an attach_volume for "in-use" has raised: the volume is listed,
\* but available, the attachment not having been made.
C34_Witness ==
    /\ result.op = "attach_volume"
    /\ result.raised = "Exception"
    /\ result.args = <<"in-use">>
    /\ result.id \in Listed
    /\ volumes[result.id].status = "available"

\* The call op that driver d starts in this step, and the volume it is for.
StartsCall(d, op) ==
    /\ pc[d].at = "idle"
    /\ \/ pc'[d].op = op
       \/ result'.by = d /\ result'.op = op
CallId(d, op) == IF pc'[d].op = op THEN pc'[d].id ELSE result'.id

\* C35: attach_volume for a volume of the driver's cluster that is attached
\* raises AlreadyAttachedVolume, detach_volume whose request finds the volume
\* unattached raises UnattachedVolume, destroy_volume for a volume that was
\* destroyed raises UnknownVolume, and each leaves every volume and attachment
\* of the backend as it was.
C35_ReissueFailsAndChangesNothing ==
    [][\A d \in Drivers :
          /\ ( /\ StartsCall(d, "attach_volume")
               /\ CallId(d, "attach_volume") \in Listed
               /\ is_cluster_volume(cluster_id(d), volumes[CallId(d, "attach_volume")])
               /\ volumes[CallId(d, "attach_volume")].status = "in-use" )
             => /\ result'.raised = "AlreadyAttachedVolume"
                /\ pc'[d].at = "idle"
                /\ volumes' = volumes
          /\ ( /\ pc[d].op = "detach_volume"
               /\ pc[d].at = "request"
               /\ pc'[d].at # "request"
               /\ pc[d].id \in Listed
               /\ volumes[pc[d].id].status = "available" )
             => /\ result'.by = d
                /\ result'.raised = "UnattachedVolume"
                /\ pc'[d].at = "idle"
                /\ volumes' = volumes
          /\ ( /\ StartsCall(d, "destroy_volume")
               /\ volumes[CallId(d, "destroy_volume")].status = "deleted" )
             => /\ result'.raised = "UnknownVolume"
                /\ pc'[d].at = "idle"
                /\ volumes' = volumes]_vars

\* destroy_volume was called again for a volume that an earlier destroy_volume
\* had destroyed, and raised UnknownVolume.
C35_Witness ==
    /\ result.op = "destroy_volume"
    /\ result.raised = "UnknownVolume"
    /\ volumes[result.id].status = "deleted"
    /\ calls = 2

\* C36: when the attach_volume calls of two drivers for the same unattached
\* volume, to different servers, interleave, only one of them sends an attach
\* request to the backend:
\* no driver sends its request while the call of another driver that has sent
\* one for the same volume is still running, and the call that comes second
\* ends with AlreadyAttachedVolume.
C36_OneAttachRequestPerVolume ==
    [][\A d \in Drivers :
          ( /\ pc[d].op = "attach_volume"
            /\ pc[d].at = "request"
            /\ pc'[d].at # "request"
            /\ \E other \in Drivers \ {d} :
                  /\ pc[other].op = "attach_volume"
                  /\ pc[other].id = pc[d].id
                  /\ pc[other].issued
                  /\ pc[other].unattached_volume.attached_to # pc[d].arg )
          => /\ result'.by = d
             /\ result'.raised = "AlreadyAttachedVolume"
             /\ ~result'.issued]_vars

\* C37: what a successful attach_volume returns is for the volume asked for,
\* is attached to a server, and is the record that list_volumes of the same
\* driver gives for that volume at the return.
C37_AttachReturnsWhatIsListed ==
    (result.op = "attach_volume" /\ result.raised = "-") =>
        /\ result.value.blockdevice_id = result.id
        /\ result.value.attached_to \in Servers
        /\ result.value \in list_volumes(result.by)

\* C38: the result of a zfs call fires once for each run of the process, in
\* connectionLost and not before: with success when the process ended cleanly,
\* _data then being all the output in the order it was written, with
\* CommandFailed for exit code 1, BadArguments for exit code 2 and the reason
\* itself for any other end; create and list succeed only in the first case.
C38_ResultFiresOncePerRun ==
    [][/\ (process.state = "exited" /\ process'.state = "none") =>
             /\ fired.times = 0
             /\ fired'.times = 1
             /\ process.out = <<>>
             /\ fired'._data = process._data
             /\ fired'.raised =
                    CASE process.reason = ConnectionDone -> "-"
                      [] process.reason = ProcessTerminated(1) -> "CommandFailed"
                      [] process.reason = ProcessTerminated(2) -> "BadArguments"
                      [] OTHER -> process.reason
             /\ (fired'.raised = "-" /\ process.call = "list") =>
                    fired'.value = parseSnapshots(Filesystem(process.filesystem),
                                                  process._data)
       /\ (process'.state # "none" /\ fired' # fired) =>
             /\ process.state = "none"
             /\ fired' = NotFired
       /\ (process.state = "exited" /\ process'.state = "exited") =>
             process'._data \o process'.out = process._data \o process.out]_vars

\* zfs list was called with arguments zfs does not take and its result fired,
\* once, with BadArguments.
C38_Witness ==
    /\ process.state = "none"
    /\ fired.call = "list"
    /\ fired.times = 1
    /\ fired.raised = "BadArguments"

====
